---- MODULE Spec2Model ----
(***************************************************************************)
(* A model of justscale/observable: the tracked-proxy graph of             *)
(* src/src/proxy.ts, the tracker constructors (createObservable,           *)
(* createModel) and the watcher registry (watch.ts).                       *)
(*                                                                         *)
(* JavaScript objects are identified by small integers.  A value stored    *)
(* in a field is a tagged record: a primitive, NaN, undefined, a reference *)
(* to a raw (unwrapped) object, or a reference to the proxy (handle) of an *)
(* object.  A raw object and its proxy are different JavaScript values.    *)
(* Every operation of the library is a pure operator from a state record   *)
(* to a state record, written after its source; the actions apply them.    *)
(***************************************************************************)
EXTENDS Integers, Sequences, FiniteSets, TLC

VARIABLES
  heap,       \* the raw objects: kind, own properties, their insertion order
  node,       \* metaCache/proxyCache: the ProxyMeta of each wrapped object
  proxies,    \* how many Proxy objects have been created for each target
  rootDS,     \* rootDirtySetMap: node -> its dirty set (0: not registered)
  obsOf,      \* OBSERVABLE_META / MODEL_INTERNALS: data object -> its tracker (0: none)
  dirty,      \* tracker -> its dirty Set<string>, in insertion order
  watchers,   \* watcherRegistry: tracker -> its Set of callbacks, in insertion order
  calls,      \* the callback invocations made by the latest operation
  dels,       \* the notifyWatchers deliveries made by the latest operation
  handles,    \* the push subscriptions: the WatchHandle of every watch(target, cb) call
  gens,       \* the pull subscriptions: the closure state of every watch(target) call
  nexts,      \* the promises returned by next(), return() and throw()
  fuel,       \* the writes the writing callback is still to make
  prevDirty,  \* dirty as it was before the latest operation
  last,       \* the latest operation and what it observed
  nops        \* operations performed so far

vars == <<heap, node, proxies, rootDS, obsOf, dirty, watchers, calls, dels, handles, gens,
          nexts, fuel, prevDirty, last, nops>>

(***************************************************************************)
(* Bounds of the exploration.                                              *)
(***************************************************************************)
\* number of API operations performed after the initial construction
MaxOps == 2
\* number of trackers (change-sets) that may exist
MaxTrk == 3

(***************************************************************************)
(* Values.                                                                 *)
(***************************************************************************)
Prim(i) == [t |-> "prim", v |-> i]
NaN == [t |-> "nan", v |-> 0]
Undef == [t |-> "undef", v |-> 0]
Raw(o) == [t |-> "raw", v |-> o]
Hnd(o) == [t |-> "hnd", v |-> o]
\* the state of a key that the object does not have
Absent == [t |-> "absent", v |-> 0]

\* typeof value === "object" && value !== null
IsObject(x) == x.t \in {"raw", "hnd"}

\* JavaScript ===  (NaN is not equal to itself; a raw object and its proxy differ)
StrictEq(x, y) == x = y /\ x.t # "nan"

\* property keys; the empty string is a legal key
Keys == {"a", "b", ""}

\* the callbacks a program may pass to watch()
Callbacks == {"f", "g"}

(***************************************************************************)
(* The raw objects of the program: 1 = {a: 2, b: 2}, 2 = {<k23>: 3},       *)
(* 3 = {a: 0, b: 4}, 4 = a Map, 5 = {a: 0}, an object nothing references.  *)
(* 3 is reached from 1 along two chains (through a and through b), and 4   *)
(* below it.  k23 is the key under which 2 holds 3.                        *)
(***************************************************************************)
NoFields == [k \in Keys |-> Absent]

\* seal: "none", or what Object.seal / Object.freeze made of the object
PlainObj(f, order) ==
  [kind |-> "plain", fields |-> f, korder |-> order, slot |-> 0, seal |-> "none"]

Heap0(k23) ==
  <<PlainObj([NoFields EXCEPT !["a"] = Raw(2), !["b"] = Raw(2)], <<"a", "b">>),
    PlainObj([NoFields EXCEPT ![k23] = Raw(3)], <<k23>>),
    PlainObj([NoFields EXCEPT !["a"] = Prim(0), !["b"] = Raw(4)], <<"a", "b">>),
    [kind |-> "container", fields |-> NoFields, korder |-> <<>>, slot |-> 0, seal |-> "none"],
    PlainObj([NoFields EXCEPT !["a"] = Prim(0)], <<"a">>)>>

Obj == DOMAIN Heap0("a")

(***************************************************************************)
(* ProxyMeta (types.ts): one node per wrapped object, named by the object *)
(* it wraps (meta.target is the node's own index).  parents, dirtySets     *)
(* are JavaScript Sets, kept here in insertion order; children maps a key  *)
(* to a node, 0 standing for "no entry".  firstDS is the dirtySet          *)
(* parameter captured by the proxy's traps when the node was created.      *)
(***************************************************************************)
NoNode == [wrapped |-> FALSE, dirtySets |-> <<>>, parents |-> <<>>,
           children |-> [k \in Keys |-> 0], firstDS |-> 0]

Range(s) == {s[i] : i \in DOMAIN s}

\* Array.prototype.push: an add that does not look for the element
ArrayPush(s, x) == Append(s, x)

\* Set.prototype.add on an insertion-ordered set
SetAdd(s, x) == IF x \in Range(s) THEN s ELSE Append(s, x)

\* Set.prototype.delete / removing a key from the key order
SeqRemove(s, x) == SelectSeq(s, LAMBDA y : y # x)

\* Array.prototype.join(".")
RECURSIVE Join(_)
Join(path) ==
  IF Len(path) = 0 THEN ""
  ELSE IF Len(path) = 1 THEN path[1]
  ELSE path[1] \o "." \o Join(Tail(path))

\* Reflect.get(obj, prop): undefined for a key the object does not have
ReflectGet(S, o, k) ==
  IF S.heap[o].fields[k] = Absent THEN Undef ELSE S.heap[o].fields[k]

\* hasInternalSlots(obj)
hasInternalSlots(S, o) == S.heap[o].kind = "container"

(***************************************************************************)
(* addParentRef: add the edge (parent, key) unless it is there already.    *)
(***************************************************************************)
addParentRef(S, m, parent, key) ==
  IF \E i \in DOMAIN S.node[m].parents :
       S.node[m].parents[i] = [node |-> parent, key |-> key]
  THEN S
  ELSE [S EXCEPT !.node[m].parents = Append(@, [node |-> parent, key |-> key])]

(***************************************************************************)
(* propagateDirtySets: the nodes the recursion reaches are those reachable *)
(* from m through children entries along nodes that do not yet own ds;     *)
(* each of them gets ds added.                                             *)
(***************************************************************************)
Owns(S, m, ds) == ds \in Range(S.node[m].dirtySets)

ChildNodes(S, m) == {S.node[m].children[k] : k \in DOMAIN S.node[m].children} \ {0}

RECURSIVE PropReach(_, _, _, _)
PropReach(S, ds, todo, done) ==
  IF todo = {} THEN done
  ELSE LET m == CHOOSE x \in todo : TRUE
           new == {c \in ChildNodes(S, m) : ~Owns(S, c, ds) /\ c \notin done /\ c # m}
       IN PropReach(S, ds, (todo \ {m}) \cup new, done \cup {m})

propagateDirtySets(S, m, ds) ==
  IF Owns(S, m, ds) THEN S
  ELSE LET reach == PropReach(S, ds, {m}, {})
       IN [S EXCEPT !.node = [o \in Obj |->
             IF o \in reach THEN [S.node[o] EXCEPT !.dirtySets = Append(@, ds)]
             ELSE S.node[o]]]

(***************************************************************************)
(* createTrackedProxy(target, path, dirtySet, parent?, keyInParent?).      *)
(* parent = 0 stands for an omitted parent.  The guard "parent &&          *)
(* keyInParent" is a truthiness test: the empty string fails it.           *)
(***************************************************************************)
\* createTrackedProxy without the proxyCache lookup: every call wraps the target anew
createTrackedProxyUncached(S, target, ds, parent, key) ==
  [S EXCEPT
     !.node[target] =
        [wrapped |-> TRUE,
         dirtySets |-> <<ds>>,
         parents |-> IF parent # 0 /\ key # ""
                     THEN <<[node |-> parent, key |-> key]>> ELSE <<>>,
         children |-> [k \in DOMAIN S.heap[target].fields |-> 0],
         firstDS |-> ds],
     !.proxies[target] = @ + 1,
     !.rootDS[target] = IF parent = 0 THEN ds ELSE @]

createTrackedProxy(S, target, ds, parent, key) ==
  IF S.node[target].wrapped
  THEN LET S1 == propagateDirtySets(S, target, ds)
       IN IF parent # 0 /\ key # ""
          THEN LET S2 == addParentRef(S1, target, parent, key)
               IN [S2 EXCEPT !.node[parent].children[key] = target]
          ELSE S1
  ELSE [S EXCEPT
          !.node[target] =
             [wrapped |-> TRUE,
              dirtySets |-> <<ds>>,
              parents |-> IF parent # 0 /\ key # ""
                          THEN <<[node |-> parent, key |-> key]>> ELSE <<>>,
              children |-> [k \in DOMAIN S.heap[target].fields |-> 0],
              firstDS |-> ds],
          !.proxies[target] = @ + 1,
          !.rootDS[target] = IF parent = 0 THEN ds ELSE @]

(***************************************************************************)
(* watch.ts: registerWatcher, its unsubscribe closure, notifyWatchers.     *)
(* The registry of a dirty set is a Set of callbacks in insertion order.   *)
(* An invocation is logged in calls with the snapshot it received (paths), *)
(* the content of the dirty set when it was made (now) and the delivery it *)
(* belongs to (del, an index of dels).  A delivery is logged in dels with  *)
(* the callbacks registered when it began (reg), its snapshot, and the     *)
(* invocation whose body caused it (by, an index of calls; 0: the program).*)
(* An invocation also notes the writing callback's counter (fuel) and      *)
(* whether a push subscription of the callback on the tracker had not been *)
(* unsubscribed when it was made (live), the content of every dirty set    *)
(* when it was made (all), and what its body read from the model (saw).    *)
(* cur is the invocation whose body is running (0: none).                  *)
(***************************************************************************)
registerWatcher(S, ds, cb) == [S EXCEPT !.watchers[ds] = SetAdd(@, cb)]

unsubscribe(S, ds, cb) == [S EXCEPT !.watchers[ds] = SeqRemove(@, cb)]

\* callback(paths): the body of callback cb, run on the state it is invoked in
RECURSIVE runCallback(_, _, _, _)

\* for (const callback of watchers) callback(paths): the loop walks the live Set.
\* An entry deleted before the loop reaches it is not visited, an entry added
\* during the loop is visited at the end.  i is the position of the entry to
\* visit; after the body has run, the entries visited so far that are still in
\* the Set come first, in their order.  d is the delivery the loop belongs to.
RECURSIVE invokeAll(_, _, _, _, _)
invokeAll(S, ds, paths, d, i) ==
  IF i > Len(S.watchers[ds]) THEN S
  ELSE LET cb == S.watchers[ds][i]
           before == {S.watchers[ds][j] : j \in 1..i}
           S1 == [S EXCEPT !.calls = Append(@, [cb |-> cb, ds |-> ds, paths |-> paths,
                                                now |-> S.dirty[ds], del |-> d,
                                                fuel |-> S.fuel, all |-> S.dirty,
                                                saw |-> <<>>,
                                                live |-> \E h \in DOMAIN S.handles :
                                                  /\ S.handles[h].ds = ds
                                                  /\ S.handles[h].cb = cb
                                                  /\ ~S.handles[h].unsub]),
                           !.cur = Len(S.calls) + 1]
           S2 == [runCallback(S1, cb, ds, paths) EXCEPT !.cur = S.cur]
           visited == Cardinality({j \in DOMAIN S2.watchers[ds] :
                                     S2.watchers[ds][j] \in before})
       IN invokeAll(S2, ds, paths, d, visited + 1)

\* a notifyWatchers that drops a notification raised while a callback is running
notifyWatchersGuarded(S, ds) ==
  IF Len(S.watchers[ds]) = 0 \/ S.cur # 0 THEN S
  ELSE LET S1 == [S EXCEPT !.dels = Append(@, [ds |-> ds, reg |-> S.watchers[ds],
                                               paths |-> S.dirty[ds], by |-> S.cur])]
       IN invokeAll(S1, ds, S.dirty[ds], Len(S1.dels), 1)

\* const paths = [...dirtySet] is taken once, before the loop
notifyWatchers(S, ds) ==
  IF Len(S.watchers[ds]) = 0 THEN S
  ELSE LET S1 == [S EXCEPT !.dels = Append(@, [ds |-> ds, reg |-> S.watchers[ds],
                                               paths |-> S.dirty[ds], by |-> S.cur])]
       IN invokeAll(S1, ds, S.dirty[ds], Len(S1.dels), 1)

RECURSIVE notifyEach(_, _, _)
notifyEach(S, dss, i) ==
  IF i > Len(dss) THEN S
  ELSE notifyEach(notifyWatchers(S, dss[i]), dss, i + 1)

(***************************************************************************)
(* collectPathsWithDirtySets: the upward walk.  results is the list of     *)
(* {path, dirtySet}; the seen map of the source holds exactly the pairs    *)
(* already pushed.  stack is the set of nodes on the current branch.       *)
(***************************************************************************)
\* a dedupe by dirty set alone: a set that has a path is not given another
SeenDirtySet(results, ds, pathStr) ==
  \E i \in DOMAIN results : results[i].ds = ds

Seen(results, ds, pathStr) ==
  \E i \in DOMAIN results : results[i].ds = ds /\ Join(results[i].path) = pathStr

\* parentRef.ref.deref(): the parent node, 0 (undefined) once it has been collected
deref(S, ref) == IF S.heap[ref.node].kind = "gone" THEN 0 ELSE ref.node

RECURSIVE traverse(_, _, _, _, _)
RECURSIVE traverseParents(_, _, _, _, _, _)
traverse(S, current, pathSuffix, pathStack, results) ==
  LET own == S.rootDS[current]
      r1 == IF own # 0 /\ ~Seen(results, own, Join(pathSuffix))
            THEN Append(results, [path |-> pathSuffix, ds |-> own])
            ELSE results
  IN IF Len(S.node[current].parents) = 0 THEN r1
     ELSE traverseParents(S, current, pathSuffix, pathStack, r1, 1)

\* a loop over the parents that ends at the first reference that does not resolve
traverseParentsUntilDangling(S, current, pathSuffix, pathStack, results, i) ==
  IF i > Len(S.node[current].parents) THEN results
  ELSE LET ref == S.node[current].parents[i]
           parent == deref(S, ref)
       IN IF parent = 0 THEN results
          ELSE traverseParents(S, current, pathSuffix, pathStack,
                               IF parent \in pathStack THEN results
                               ELSE traverse(S, parent, <<ref.key>> \o pathSuffix,
                                             pathStack \cup {parent}, results),
                               i + 1)

traverseParents(S, current, pathSuffix, pathStack, results, i) ==
  IF i > Len(S.node[current].parents) THEN results
  ELSE LET ref == S.node[current].parents[i]
           parent == deref(S, ref)
           r1 == IF parent = 0 \/ parent \in pathStack THEN results
                 ELSE traverse(S, parent, <<ref.key>> \o pathSuffix,
                               pathStack \cup {parent}, results)
       IN traverseParents(S, current, pathSuffix, pathStack, r1, i + 1)

\* a walk without the fallback for a node that reaches no root
collectPathsNoFallback(S, m) == traverse(S, m, <<>>, {m}, <<>>)

collectPathsWithDirtySets(S, m) ==
  LET results == traverse(S, m, <<>>, {m}, <<>>)
  IN IF Len(results) = 0
     THEN [i \in DOMAIN S.node[m].dirtySets |->
             [path |-> <<>>, ds |-> S.node[m].dirtySets[i]]]
     ELSE results

(***************************************************************************)
(* markDirtyWithParents(meta, key) and markContainerDirty(meta): write the *)
(* paths into the dirty sets, then notify each modified dirty set once, in *)
(* the order in which the sets were first modified.                        *)
(***************************************************************************)
\* a loop that records the nearest ancestor only
addNearestPrefix(d, path, i) ==
  IF i <= 0 THEN d ELSE SetAdd(d, Join(SubSeq(path, 1, i)))

\* for (let i = from; i > 0; i--) dirtySet.add(path.slice(0, i).join("."))
RECURSIVE addPrefixes(_, _, _)
addPrefixes(d, path, i) ==
  IF i <= 0 THEN d
  ELSE addPrefixes(SetAdd(d, Join(SubSeq(path, 1, i))), path, i - 1)

\* MD is [S, modified]
RECURSIVE markEach(_, _, _, _)
markEach(MD, pws, key, i) ==
  IF i > Len(pws) THEN MD
  ELSE LET basePath == pws[i].path
           ds == pws[i].ds
           fullPath == Join(Append(basePath, key))
           d1 == SetAdd(MD.S.dirty[ds], fullPath)
           d2 == addPrefixes(d1, basePath, Len(basePath))
       IN markEach([S |-> [MD.S EXCEPT !.dirty[ds] = d2],
                    modified |-> SetAdd(MD.modified, ds)], pws, key, i + 1)

\* a markDirtyWithParents that notifies once per recorded path
markDirtyNotifyPerPath(S, m, key) ==
  LET pws == collectPathsWithDirtySets(S, m)
      MD == markEach([S |-> S, modified |-> <<>>], pws, key, 1)
  IN notifyEach(MD.S, [i \in DOMAIN pws |-> pws[i].ds], 1)

\* a markDirtyWithParents that notifies a dirty set as soon as it has
\* received its first path, before the walk goes on to the next entry
RECURSIVE markEachEager(_, _, _, _)
markEachEager(MD, pws, key, i) ==
  IF i > Len(pws) THEN MD.S
  ELSE LET basePath == pws[i].path
           ds == pws[i].ds
           fullPath == Join(Append(basePath, key))
           d1 == SetAdd(MD.S.dirty[ds], fullPath)
           d2 == addPrefixes(d1, basePath, Len(basePath))
           S1 == [MD.S EXCEPT !.dirty[ds] = d2]
           S2 == IF ds \in Range(MD.modified) THEN S1 ELSE notifyWatchers(S1, ds)
       IN markEachEager([S |-> S2, modified |-> SetAdd(MD.modified, ds)], pws, key, i + 1)

markDirtyNotifyEager(S, m, key) ==
  markEachEager([S |-> S, modified |-> <<>>], collectPathsWithDirtySets(S, m), key, 1)

\* a markDirtyWithParents that notifies only the dirty sets that grew
RECURSIVE markEachGrown(_, _, _, _)
markEachGrown(MD, pws, key, i) ==
  IF i > Len(pws) THEN MD
  ELSE LET basePath == pws[i].path
           ds == pws[i].ds
           fullPath == Join(Append(basePath, key))
           d1 == SetAdd(MD.S.dirty[ds], fullPath)
           d2 == addPrefixes(d1, basePath, Len(basePath))
       IN markEachGrown([S |-> [MD.S EXCEPT !.dirty[ds] = d2],
                         modified |-> IF d2 # MD.S.dirty[ds]
                                      THEN SetAdd(MD.modified, ds)
                                      ELSE MD.modified], pws, key, i + 1)

markDirtyNotifyOnGrowth(S, m, key) ==
  LET pws == collectPathsWithDirtySets(S, m)
      MD == markEachGrown([S |-> S, modified |-> <<>>], pws, key, 1)
  IN notifyEach(MD.S, MD.modified, 1)

markDirtyWithParents(S, m, key) ==
  LET pws == collectPathsWithDirtySets(S, m)
      MD == markEach([S |-> S, modified |-> <<>>], pws, key, 1)
  IN notifyEach(MD.S, MD.modified, 1)

RECURSIVE markEachContainer(_, _, _)
markEachContainer(MD, pws, i) ==
  IF i > Len(pws) THEN MD
  ELSE LET path == pws[i].path
           ds == pws[i].ds
           d1 == IF Len(path) > 0 THEN SetAdd(MD.S.dirty[ds], Join(path))
                 ELSE MD.S.dirty[ds]
           d2 == addPrefixes(d1, path, Len(path) - 1)
       IN markEachContainer(
            [S |-> [MD.S EXCEPT !.dirty[ds] = d2],
             modified |-> IF Len(path) > 0 THEN SetAdd(MD.modified, ds)
                          ELSE MD.modified], pws, i + 1)

\* a markContainerDirty that records and notifies also for the empty path
RECURSIVE markEachContainerAlways(_, _, _)
markEachContainerAlways(MD, pws, i) ==
  IF i > Len(pws) THEN MD
  ELSE LET path == pws[i].path
           ds == pws[i].ds
           d1 == SetAdd(MD.S.dirty[ds], Join(path))
           d2 == addPrefixes(d1, path, Len(path) - 1)
       IN markEachContainerAlways(
            [S |-> [MD.S EXCEPT !.dirty[ds] = d2],
             modified |-> SetAdd(MD.modified, ds)], pws, i + 1)

markContainerDirtyAlways(S, m) ==
  LET pws == collectPathsWithDirtySets(S, m)
      MD == markEachContainerAlways([S |-> S, modified |-> <<>>], pws, 1)
  IN notifyEach(MD.S, MD.modified, 1)

markContainerDirty(S, m) ==
  LET pws == collectPathsWithDirtySets(S, m)
      MD == markEachContainer([S |-> S, modified |-> <<>>], pws, 1)
  IN notifyEach(MD.S, MD.modified, 1)

(***************************************************************************)
(* The get trap.  Returns the new state and the value handed to the caller.*)
(***************************************************************************)
RECURSIVE propagateAll(_, _, _, _)
propagateAll(S, m, dss, i) ==
  IF i > Len(dss) THEN S
  ELSE propagateAll(propagateDirtySets(S, m, dss[i]), m, dss, i + 1)

\* a get trap that records the key it reads
getMarking(S, n, k) ==
  [S |-> markDirtyWithParents(S, n, k), val |-> ReflectGet(S, n, k)]

get(S, n, k) ==
  LET value == ReflectGet(S, n, k)
  IN IF hasInternalSlots(S, n)
     THEN [S |-> S, val |-> value]
     ELSE IF S.node[n].children[k] # 0
     THEN [S |-> S, val |-> Hnd(S.node[n].children[k])]
     ELSE IF value.t = "hnd"
     THEN LET S1 == addParentRef(S, value.v, n, k)
              S2 == [S1 EXCEPT !.node[n].children[k] = value.v]
          IN [S |-> propagateAll(S2, value.v, S.node[n].dirtySets, 1),
              val |-> value]
     ELSE IF value.t = "raw"
     THEN LET S1 == createTrackedProxy(S, value.v, S.node[n].firstDS, n, k)
          IN [S |-> [S1 EXCEPT !.node[n].children[k] = value.v],
              val |-> Hnd(value.v)]
     ELSE [S |-> S, val |-> value]

(***************************************************************************)
(* deepTraverse(proxy): reads every key of every handle reachable from the *)
(* root handle, once per handle.  A container handle is a leaf: its keys   *)
(* are read through the internal-slot branch of the get trap, which wraps  *)
(* nothing.  TV is [S, visited].                                           *)
(***************************************************************************)
RECURSIVE deepTraverse(_, _)
RECURSIVE deepTraverseKeys(_, _, _, _)
deepTraverse(TV, o) ==
  IF o \in TV.visited THEN TV
  ELSE LET TV1 == [S |-> TV.S, visited |-> TV.visited \cup {o}]
       IN IF hasInternalSlots(TV.S, o) THEN TV1
          ELSE deepTraverseKeys(TV1, o, TV.S.heap[o].korder, 1)

deepTraverseKeys(TV, o, ks, i) ==
  IF i > Len(ks) THEN TV
  ELSE LET r == get(TV.S, o, ks[i])
           TV1 == [S |-> r.S, visited |-> TV.visited]
       IN deepTraverseKeys(IF r.val.t = "hnd" THEN deepTraverse(TV1, r.val.v) ELSE TV1,
                           o, ks, i + 1)

(***************************************************************************)
(* createObservable(data) / createModel(schema, input): a new dirty set,   *)
(* the root proxy, the eager traversal, and the internals attached to the  *)
(* data object.  The new dirty set is the next tracker number.             *)
(***************************************************************************)
\* Object.defineProperty(data, OBSERVABLE_META, ...) throws a TypeError on an object
\* that is not extensible
Throws(S, o) == S.heap[o].seal # "none"

createObservable(S, o) ==
  LET ds == Len(S.dirty) + 1
      S0 == [S EXCEPT !.dirty = Append(@, <<>>), !.watchers = Append(@, <<>>)]
      S1 == createTrackedProxy(S0, o, ds, 0, "")
      S2 == deepTraverse([S |-> S1, visited |-> {}], o).S
  IN IF Throws(S, o) THEN S2 ELSE [S2 EXCEPT !.obsOf[o] = ds]

(***************************************************************************)
(* Reflect.set / Reflect.deleteProperty on the underlying object.  A       *)
(* frozen object rejects every assignment, a sealed one the assignment of  *)
(* a key it does not have, and both reject a delete; a rejected operation  *)
(* leaves the object as it was.  An array has its elements under the index *)
(* keys and its length under "length": assigning a length removes the      *)
(* elements at and above it, assigning an element at or above the length   *)
(* raises the length.  korder holds the enumerable keys (not "length").    *)
(***************************************************************************)
ArrayKeys == {"0", "1", "length"}

IndexOf(k) == IF k = "0" THEN 0 ELSE 1

Rejects(S, o, k) ==
  \/ S.heap[o].seal = "frozen"
  \/ S.heap[o].seal = "sealed" /\ S.heap[o].fields[k] = Absent

ReflectSet(S, o, k, v) ==
  IF Rejects(S, o, k) THEN S
  ELSE IF S.heap[o].kind = "array" /\ k = "length"
  THEN [S EXCEPT !.heap[o].fields =
                    [x \in ArrayKeys |->
                       IF x = "length" THEN v
                       ELSE IF IndexOf(x) >= v.v THEN Absent ELSE @[x]],
                 !.heap[o].korder = SelectSeq(@, LAMBDA x : IndexOf(x) < v.v)]
  ELSE IF S.heap[o].kind = "array"
  THEN [S EXCEPT !.heap[o].fields =
                    [@ EXCEPT ![k] = v,
                              !["length"] = IF IndexOf(k) >= @.v THEN Prim(IndexOf(k) + 1)
                                            ELSE @],
                 !.heap[o].korder = IF S.heap[o].fields[k] = Absent THEN Append(@, k) ELSE @]
  ELSE [S EXCEPT !.heap[o].fields[k] = v,
                 !.heap[o].korder = IF S.heap[o].fields[k] = Absent THEN Append(@, k) ELSE @]

ReflectDelete(S, o, k) ==
  IF S.heap[o].seal # "none" THEN S
  ELSE [S EXCEPT !.heap[o].fields[k] = Absent,
                 !.heap[o].korder = SeqRemove(@, k)]

(***************************************************************************)
(* The set and deleteProperty traps.                                       *)
(***************************************************************************)
\* a set trap without the two equality tests: every assignment is recorded
setAlwaysDirty(S, n, k, v) ==
  markDirtyWithParents(ReflectSet([S EXCEPT !.node[n].children[k] = 0], n, k, v), n, k)

set(S, n, k, v) ==
  LET oldValue == ReflectGet(S, n, k)
      existingChild == S.node[n].children[k]
  IN IF existingChild # 0 /\ v = Hnd(existingChild)
     THEN S
     ELSE LET S1 == [S EXCEPT !.node[n].children[k] = 0]
              S2 == ReflectSet(S1, n, k, v)
          IN IF ~StrictEq(oldValue, v)
             THEN markDirtyWithParents(S2, n, k)
             ELSE S2

\* a deleteProperty trap that removes the field before it propagates
deletePropertyRemoveFirst(S, n, k) ==
  markDirtyWithParents(ReflectDelete([S EXCEPT !.node[n].children[k] = 0], n, k), n, k)

deleteProperty(S, n, k) ==
  LET S1 == markDirtyWithParents(S, n, k)
      S2 == [S1 EXCEPT !.node[n].children[k] = 0]
  IN ReflectDelete(S2, n, k)

(***************************************************************************)
(* A mutating method called through the handle of a container (the wrapper *)
(* returned by the get trap): the real method runs on the target, then the *)
(* container is marked dirty.  slot stands for the internal state.         *)
(***************************************************************************)
callMutator(S, n) ==
  markContainerDirty([S EXCEPT !.heap[n].slot = 1 - @], n)

(***************************************************************************)
(* internals.markClean(): dirty.clear()                                    *)
(***************************************************************************)
\* a markClean that clears the dirty set of every tracker
markCleanAll(S, t) == [S EXCEPT !.dirty = [u \in DOMAIN S.dirty |-> <<>>]]

markClean(S, t) == [S EXCEPT !.dirty[t] = <<>>]

(***************************************************************************)
(* watch(target, options): the pull subscription.  gens[g] is the closure  *)
(* state of the g-th watch(target) call: pendingResolve is the promise of  *)
(* nexts whose resolver the closure holds (0: null), pendingPaths the      *)
(* array it holds (set = FALSE: null), unsubscribeFn whether it still      *)
(* holds the unsubscribe closure.  An array is identified by id, the       *)
(* number of the notification that made it among those the subscription's  *)
(* callback received (seen counts them).  The callback of subscription g   *)
(* is registered under the name PullNames[g].                              *)
(***************************************************************************)
PullNames == <<"p1", "p2", "p3", "p4">>

GenOf(cb) == CHOOSE g \in DOMAIN PullNames : PullNames[g] = cb

NoBatch == [set |-> FALSE, paths |-> <<>>, id |-> 0]

Batch(paths, id) == [set |-> TRUE, paths |-> paths, id |-> id]

\* a promise returned by next(): pending, fulfilled with a batch, or fulfilled with done
Promise(g, state, batch) == [gen |-> g, state |-> state, paths |-> batch.paths, id |-> batch.id]

\* pendingResolve({value, done}): settles the promise the resolver belongs to
resolve(S, p, state, batch) ==
  [S EXCEPT !.nexts[p] = Promise(S.nexts[p].gen, state, batch)]

\* a callback that keeps the oldest undelivered batch instead of the latest
callbackKeepOldest(S, g, paths) ==
  LET G == S.gens[g]
      S1 == [S EXCEPT !.gens[g].seen = @ + 1]
  IN IF G.stopped THEN S
     ELSE IF G.pendingResolve # 0
     THEN [resolve(S1, G.pendingResolve, "value", Batch(paths, G.seen + 1))
             EXCEPT !.gens[g].pendingResolve = 0]
     ELSE IF G.pendingPaths.set THEN S1
     ELSE [S1 EXCEPT !.gens[g].pendingPaths = Batch(paths, G.seen + 1)]

\* a callback that, with coalesce: false, keeps the oldest undelivered batch
callbackNoCoalesceKeepsOldest(S, g, paths) ==
  LET G == S.gens[g]
      S1 == [S EXCEPT !.gens[g].seen = @ + 1]
  IN IF G.stopped THEN S
     ELSE IF G.pendingResolve # 0
     THEN [resolve(S1, G.pendingResolve, "value", Batch(paths, G.seen + 1))
             EXCEPT !.gens[g].pendingResolve = 0]
     ELSE IF G.coalesce
     THEN [S1 EXCEPT !.gens[g].pendingPaths = Batch(paths, G.seen + 1)]
     ELSE IF G.pendingPaths.set THEN S1
     ELSE [S1 EXCEPT !.gens[g].pendingPaths = Batch(paths, G.seen + 1)]

\* const callback = (paths) => { ... }
callback(S, g, paths) ==
  LET G == S.gens[g]
      S1 == [S EXCEPT !.gens[g].seen = @ + 1]
  IN IF G.stopped THEN S
     ELSE IF G.pendingResolve # 0
     THEN [resolve(S1, G.pendingResolve, "value", Batch(paths, G.seen + 1))
             EXCEPT !.gens[g].pendingResolve = 0]
     ELSE IF G.coalesce
     THEN [S1 EXCEPT !.gens[g].pendingPaths = Batch(paths, G.seen + 1)]
     ELSE [S1 EXCEPT !.gens[g].pendingPaths = Batch(paths, G.seen + 1)]

\* watch(target, {coalesce}): the closure state, then registerWatcher
watchPull(S, t, coalesce) ==
  LET g == Len(S.gens) + 1
      S1 == [S EXCEPT !.gens = Append(@, [ds |-> t, coalesce |-> coalesce, stopped |-> FALSE,
                                          pendingPaths |-> NoBatch, pendingResolve |-> 0,
                                          unsubscribeFn |-> FALSE, seen |-> 0])]
  IN [registerWatcher(S1, t, PullNames[g]) EXCEPT !.gens[g].unsubscribeFn = TRUE]

doUnsubscribe(S, g) ==
  LET G == S.gens[g]
      S1 == [S EXCEPT !.gens[g].stopped = TRUE]
      S2 == IF G.unsubscribeFn
            THEN [unsubscribe(S1, G.ds, PullNames[g]) EXCEPT !.gens[g].unsubscribeFn = FALSE]
            ELSE S1
  IN IF G.pendingResolve # 0
     THEN [resolve(S2, G.pendingResolve, "done", NoBatch) EXCEPT !.gens[g].pendingResolve = 0]
     ELSE S2

\* a next() that looks at pendingPaths before stopped
nextPendingFirst(S, g) ==
  LET G == S.gens[g]
      p == Len(S.nexts) + 1
  IN IF G.pendingPaths.set
     THEN [S EXCEPT !.nexts = Append(@, Promise(g, "value", G.pendingPaths)),
                    !.gens[g].pendingPaths = NoBatch]
     ELSE IF G.stopped
     THEN [S EXCEPT !.nexts = Append(@, Promise(g, "done", NoBatch))]
     ELSE [S EXCEPT !.nexts = Append(@, Promise(g, "pending", NoBatch)),
                    !.gens[g].pendingResolve = p]

\* watcher.next(): the promise it returns is appended to nexts
next(S, g) ==
  LET G == S.gens[g]
      p == Len(S.nexts) + 1
  IN IF G.stopped
     THEN [S EXCEPT !.nexts = Append(@, Promise(g, "done", NoBatch))]
     ELSE IF G.pendingPaths.set
     THEN [S EXCEPT !.nexts = Append(@, Promise(g, "value", G.pendingPaths)),
                    !.gens[g].pendingPaths = NoBatch]
     ELSE [S EXCEPT !.nexts = Append(@, Promise(g, "pending", NoBatch)),
                    !.gens[g].pendingResolve = p]

(***************************************************************************)
(* watch(target, callback): the push subscription.  handles[h] is the      *)
(* WatchHandle of the h-th call: its unsubscribe closure captures the      *)
(* registry of the dirty set and the callback.  unsub notes that           *)
(* unsubscribe() of the handle has been called.                            *)
(***************************************************************************)
watchPush(S, t, cb) ==
  [registerWatcher(S, t, cb) EXCEPT
     !.handles = Append(@, [ds |-> t, cb |-> cb, unsub |-> FALSE])]

\* handle.unsubscribe()
unsubscribeHandle(S, h) ==
  [unsubscribe(S, S.handles[h].ds, S.handles[h].cb) EXCEPT !.handles[h].unsub = TRUE]

\* the handle a callback's body holds for callback cb on dirty set ds (0: none)
handleOf(S, ds, cb) ==
  LET hs == {h \in DOMAIN S.handles : S.handles[h].ds = ds /\ S.handles[h].cb = cb}
  IN IF hs = {} THEN 0 ELSE CHOOSE h \in hs : \A h2 \in hs : h <= h2

(***************************************************************************)
(* The callbacks of the programs.  f and g only receive their paths; u     *)
(* unsubscribes itself, x unsubscribes g, c calls markClean on the tracker *)
(* it watches, w writes a fresh value to field a of WriterNode as long as  *)
(* it has fuel (a counter the callback keeps), r reads field a of each of  *)
(* the ReaderNodes through its handle, and a name of PullNames is the      *)
(* callback of a pull subscription.                                        *)
(***************************************************************************)
WriterNode == 3

ReaderNodes == <<1, 3, 5>>

PushCallbacks == {"f", "g", "u", "x", "c", "w", "r"}

\* the reads of callback r, one get trap after the other; RS is [S, saw]
RECURSIVE readFields(_, _)
readFields(RS, i) ==
  IF i > Len(ReaderNodes) THEN RS
  ELSE LET r == get(RS.S, ReaderNodes[i], "a")
       IN readFields([S |-> r.S, saw |-> Append(RS.saw, r.val)], i + 1)

runCallback(S, cb, ds, paths) ==
  IF cb = "u"
  THEN IF handleOf(S, ds, "u") = 0 THEN S ELSE unsubscribeHandle(S, handleOf(S, ds, "u"))
  ELSE IF cb = "x"
  THEN IF handleOf(S, ds, "g") = 0 THEN S ELSE unsubscribeHandle(S, handleOf(S, ds, "g"))
  ELSE IF cb = "c" THEN markClean(S, ds)
  ELSE IF cb = "w"
  THEN IF S.fuel > 0
       THEN set([S EXCEPT !.fuel = @ - 1], WriterNode, "a", Prim(S.fuel))
       ELSE S
  ELSE IF cb = "r"
  THEN LET RS == readFields([S |-> S, saw |-> <<>>], 1)
       IN [RS.S EXCEPT !.calls[S.cur].saw = RS.saw]
  ELSE IF cb \in Range(PullNames) THEN callback(S, GenOf(cb), paths)
  ELSE S

(***************************************************************************)
(* watch(target, ...): the target is resolved to its dirty set first.      *)
(* `OBSERVABLE_META in target` and `MODEL_INTERNALS in target` look at the *)
(* data object, directly or through the has trap of its handle: a target   *)
(* is a value Raw(o) or Hnd(o), and it carries internals when a            *)
(* constructor has attached them to o.  An operation that can throw        *)
(* returns the state it leaves and whether it threw.                       *)
(***************************************************************************)
Thrown == [t |-> "thrown", v |-> 0]

\* a getDirtySet that falls back on the dirty set a nested handle was wrapped under
getDirtySetOfNode(S, target) ==
  IF S.obsOf[target.v] # 0 THEN [threw |-> FALSE, ds |-> S.obsOf[target.v]]
  ELSE IF target.t = "hnd" /\ S.node[target.v].wrapped
  THEN [threw |-> FALSE, ds |-> S.node[target.v].firstDS]
  ELSE [threw |-> TRUE, ds |-> 0]

getDirtySet(S, target) ==
  IF S.obsOf[target.v] # 0 THEN [threw |-> FALSE, ds |-> S.obsOf[target.v]]
  ELSE [threw |-> TRUE, ds |-> 0]

\* watch(target, callback)
watch(S, target, cb) ==
  LET r == getDirtySet(S, target)
  IN IF r.threw THEN [S |-> S, threw |-> TRUE]
     ELSE [S |-> watchPush(S, r.ds, cb), threw |-> FALSE]

\* watch(target, {coalesce})
watchIterator(S, target, coalesce) ==
  LET r == getDirtySet(S, target)
  IN IF r.threw THEN [S |-> S, threw |-> TRUE]
     ELSE [S |-> watchPull(S, r.ds, coalesce), threw |-> FALSE]

(***************************************************************************)
(* internals.getDirtyData() of model.ts.  The result object is the list of *)
(* its entries in the order they were added (no key of the programs is an  *)
(* integer index or a property of Object.prototype, so that is the order   *)
(* of its keys and `topKey in result` asks for an entry).  Each value is   *)
(* read through the root handle.  DD is [S, result].                       *)
(***************************************************************************)
\* path.split(".")[0]
topKey(path) ==
  LET dots == {i \in 1..Len(path) : SubSeq(path, i, i) = "."}
  IN IF dots = {} THEN path
     ELSE SubSeq(path, 1, (CHOOSE i \in dots : \A j \in dots : i <= j) - 1)

RECURSIVE addDirtyData(_, _, _, _)
\* for (const path of dirty) { ... if (topKey && !(topKey in result)) ... }
addDirtyData(DD, root, paths, i) ==
  IF i > Len(paths) THEN DD
  ELSE LET k == topKey(paths[i])
       IN IF k # "" /\ \A j \in DOMAIN DD.result : DD.result[j].key # k
          THEN LET r == get(DD.S, root, k)
               IN addDirtyData([S |-> r.S, result |-> Append(DD.result, [key |-> k, val |-> r.val])],
                               root, paths, i + 1)
          ELSE addDirtyData(DD, root, paths, i + 1)

getDirtyData(S, t) ==
  LET root == CHOOSE o \in Obj : S.obsOf[o] = t
  IN addDirtyData([S |-> S, result |-> <<>>], root, S.dirty[t], 1)

(***************************************************************************)
(* Initial states: the state a program is in after it has built its        *)
(* trackers.  A setup is a list of steps, run with the operators above:    *)
(* plain assignments to objects that are not tracked yet (building the     *)
(* input of a constructor), constructor calls and watch() calls.           *)
(***************************************************************************)
Empty(k23) ==
  [heap |-> Heap0(k23),
   node |-> [o \in Obj |-> NoNode],
   proxies |-> [o \in Obj |-> 0],
   rootDS |-> [o \in Obj |-> 0],
   obsOf |-> [o \in Obj |-> 0],
   dirty |-> <<>>,
   watchers |-> <<>>,
   calls |-> <<>>,
   dels |-> <<>>,
   handles |-> <<>>,
   gens |-> <<>>,
   nexts |-> <<>>,
   fuel |-> 0,
   cur |-> 0]

StCreate(o) == [op |-> "create", o |-> o, k |-> "", v |-> Undef]
StBuild(o, k, v) == [op |-> "build", o |-> o, k |-> k, v |-> v]
StWatch(t, cb) == [op |-> "watch", o |-> t, k |-> cb, v |-> Undef]

RunStep(S, st) ==
  IF st.op = "create" THEN createObservable(S, st.o)
  ELSE IF st.op = "build" THEN ReflectSet(S, st.o, st.k, st.v)
  ELSE registerWatcher(S, st.o, st.k)

RECURSIVE RunSetup(_, _, _)
RunSetup(S, steps, i) ==
  IF i > Len(steps) THEN S ELSE RunSetup(RunStep(S, steps[i]), steps, i + 1)

Setups ==
  { \* one model over the whole structure
    [k23 |-> "a", steps |-> <<StCreate(1), StWatch(1, "f")>>],
    \* the same, 2 holding 3 under the empty key
    [k23 |-> "", steps |-> <<StCreate(1), StWatch(1, "f")>>],
    \* an observable, then a model whose input reaches the same raw object
    [k23 |-> "a", steps |-> <<StCreate(3), StCreate(1), StWatch(1, "f"), StWatch(2, "f")>>],
    \* an observable handed to a model as a handle (README example)
    [k23 |-> "a", steps |-> <<StCreate(3), StBuild(5, "b", Hnd(3)), StCreate(5),
                              StWatch(1, "f"), StWatch(2, "g")>>],
    \* two trackers sharing 3 and the Map 4 below it
    [k23 |-> "a", steps |-> <<StCreate(1), StBuild(5, "b", Raw(3)), StCreate(5),
                              StWatch(1, "f"), StWatch(2, "g")>>] }

\* last: the operation, the node (or tracker, or object) it was applied to, its key
\* (or callback), the value written, the value returned, and for a write the value
\* the field held and the child node cached under the key before it
Op(op, n, k, v, ret, old, child) ==
  [op |-> op, n |-> n, k |-> k, v |-> v, ret |-> ret, old |-> old, child |-> child]

NoOp == Op("init", 0, "", Undef, Undef, Undef, 0)

Init ==
  \E su \in Setups :
    LET S == RunSetup(Empty(su.k23), su.steps, 1)
    IN /\ heap = S.heap
       /\ node = S.node
       /\ proxies = S.proxies
       /\ rootDS = S.rootDS
       /\ obsOf = S.obsOf
       /\ dirty = S.dirty
       /\ watchers = S.watchers
       /\ calls = <<>>
       /\ dels = <<>>
       /\ handles = S.handles
       /\ gens = S.gens
       /\ nexts = S.nexts
       /\ fuel = S.fuel
       /\ prevDirty = S.dirty
       /\ last = NoOp
       /\ nops = 0

(***************************************************************************)
(* Actions: one per operation a program performs on the library.  calls    *)
(* holds the callback invocations of the latest operation, last names it.  *)
(***************************************************************************)
State ==
  [heap |-> heap, node |-> node, proxies |-> proxies, rootDS |-> rootDS, obsOf |-> obsOf,
   dirty |-> dirty, watchers |-> watchers, calls |-> <<>>, dels |-> <<>>,
   handles |-> handles, gens |-> gens, nexts |-> nexts, fuel |-> fuel, cur |-> 0]

Commit(S0, l) ==
  \E S \in {S0} :
  /\ heap' = S.heap
  /\ node' = S.node
  /\ proxies' = S.proxies
  /\ rootDS' = S.rootDS
  /\ obsOf' = S.obsOf
  /\ dirty' = S.dirty
  /\ watchers' = S.watchers
  /\ calls' = S.calls
  /\ dels' = S.dels
  /\ handles' = S.handles
  /\ gens' = S.gens
  /\ nexts' = S.nexts
  /\ fuel' = S.fuel
  /\ prevDirty' = dirty
  /\ last' = l
  /\ nops' = nops + 1

Wrapped == {o \in Obj : node[o].wrapped}
Trackers == DOMAIN dirty

\* the values a program writes: the primitive the fields start with, another
\* primitive, the raw object 5, and 3 as its handle once it has one
WriteVals ==
  {Prim(0), NaN, Raw(5), IF 3 \in Wrapped THEN Hnd(3) ELSE Raw(3)}

\* the keys a program writes and deletes
WriteKeys == {"a", ""}

\* the keys a program uses on node n: a container is indexed by one element key
KeysOf(n) == IF heap[n].kind = "container" THEN {"a"} ELSE Keys

\* handle[k]
Read(n, k) ==
  /\ nops < MaxOps
  /\ n \in Wrapped
  /\ k \in KeysOf(n)
  /\ LET r == get(State, n, k)
     IN Commit(r.S, Op("read", n, k, Undef, r.val, ReflectGet(State, n, k), node[n].children[k]))

\* handle[k] = v
Write(n, k, v) ==
  /\ nops < MaxOps
  /\ n \in Wrapped
  /\ k \in KeysOf(n) \cap WriteKeys
  /\ hasInternalSlots(State, n) => ~IsObject(v)
  /\ Commit(set(State, n, k, v),
            Op("write", n, k, v, Undef, ReflectGet(State, n, k), node[n].children[k]))

\* delete handle[k]
Delete(n, k) ==
  /\ nops < MaxOps
  /\ n \in Wrapped
  /\ k \in KeysOf(n) \cap WriteKeys
  /\ Commit(deleteProperty(State, n, k),
            Op("delete", n, k, Undef, Undef, ReflectGet(State, n, k), node[n].children[k]))

\* handle.set(...), handle.add(...), handle.fill(...): a mutating method
CallMutator(n) ==
  /\ nops < MaxOps
  /\ n \in Wrapped
  /\ hasInternalSlots(State, n)
  /\ Commit(callMutator(State, n),
            Op("mutator", n, "", Undef, Undef, Undef, 0))

\* handle.get(...), handle.has(...), handle.slice(...): a non-mutating method,
\* bound to the target and run on it
CallReader(n) ==
  /\ nops < MaxOps
  /\ n \in Wrapped
  /\ hasInternalSlots(State, n)
  /\ Commit(State,
            Op("reader", n, "", Undef, Prim(heap[n].slot), Undef, 0))

\* k in handle, Object.keys(handle), Object.getOwnPropertyDescriptor(handle, k),
\* Object.getPrototypeOf(handle): forwarded to Reflect on the target
Inspect(n, k) ==
  /\ nops < MaxOps
  /\ n \in Wrapped
  /\ k = "a"
  /\ Commit(State,
            Op("inspect", n, k, Undef, Prim(IF heap[n].fields[k] = Absent THEN 0 ELSE 1),
               Undef, 0))

\* getObservableInternals(x).markClean() / getModelInternals(x).markClean()
MarkClean(t) ==
  /\ nops < MaxOps
  /\ t \in Trackers
  /\ Commit(markClean(State, t),
            Op("markClean", t, "", Undef, Undef, Undef, 0))

\* watch(tracker, cb)
Watch(t, cb) ==
  /\ nops < MaxOps
  /\ t \in Trackers
  /\ Commit(registerWatcher(State, t, cb),
            Op("watch", t, cb, Undef, Undef, Undef, 0))

\* the unsubscribe() of the handle watch(tracker, cb) returned
Unwatch(t, cb) ==
  /\ nops < MaxOps
  /\ t \in Trackers
  /\ cb \in Range(watchers[t])
  /\ Commit(unsubscribe(State, t, cb),
            Op("unwatch", t, cb, Undef, Undef, Undef, 0))

\* createObservable(o) on a raw object that carries no internals yet
CreateObservable(o) ==
  /\ nops < MaxOps
  /\ Len(dirty) < MaxTrk
  /\ obsOf[o] = 0
  /\ Commit(createObservable(State, o),
            Op("create", o, "", Undef, Hnd(o), Undef, 0))

\* o[k] = v on a raw object that is not tracked yet (building a constructor's input)
Build(o, k, v) ==
  /\ nops < MaxOps
  /\ o \notin Wrapped
  /\ heap[o].kind = "plain"
  /\ k = "b"
  /\ IsObject(v)
  /\ Commit(ReflectSet(State, o, k, v),
            Op("build", o, k, v, Undef, Undef, 0))

Next ==
  \/ \E n \in Obj, k \in Keys : Read(n, k)
  \/ \E n \in Obj, k \in Keys, v \in WriteVals : Write(n, k, v)
  \/ \E n \in Obj, k \in Keys : Delete(n, k)
  \/ \E n \in Obj : CallMutator(n)
  \/ \E n \in Obj : CallReader(n)
  \/ \E n \in Obj, k \in Keys : Inspect(n, k)
  \/ \E t \in Trackers : MarkClean(t)
  \/ \E t \in Trackers, cb \in Callbacks : Watch(t, cb)
  \/ \E t \in Trackers, cb \in Callbacks : Unwatch(t, cb)
  \/ \E o \in Obj : CreateObservable(o)
  \/ \E o \in Obj, k \in Keys, v \in WriteVals : Build(o, k, v)

Spec == Init /\ [][Next]_vars

(***************************************************************************)
(* Push delivery.  A second specification: two trackers that share node 3  *)
(* (tracker 1 reaches it along a.a and b.a, tracker 2 along b), programs   *)
(* that subscribe callbacks with bodies, unsubscribe, write and clean.     *)
(***************************************************************************)
\* number of operations of a push program
MaxPushOps == 3
\* number of watch(target, callback) calls of a program
MaxHandles == 3
\* number of writes the writing callback makes
MaxFuel == 1

StructPush == <<StCreate(1), StBuild(5, "b", Raw(3)), StCreate(5)>>

\* the subscriptions a program starts with
PushSetups ==
  { <<>>,
    <<StWatch(1, "f")>>,
    <<StWatch(1, "x"), StWatch(1, "g")>>,
    <<StWatch(1, "c"), StWatch(1, "f"), StWatch(2, "g")>>,
    <<StWatch(1, "w"), StWatch(1, "g"), StWatch(2, "f")>>,
    <<StWatch(2, "u"), StWatch(2, "f")>> }

RECURSIVE RunWatches(_, _, _)
RunWatches(S, steps, i) ==
  IF i > Len(steps) THEN S
  ELSE RunWatches(watchPush(S, steps[i].o, steps[i].k), steps, i + 1)

PushInit ==
  \E su \in PushSetups :
    LET S == RunWatches(RunSetup(Empty("a"), StructPush, 1), su, 1)
    IN /\ heap = S.heap
       /\ node = S.node
       /\ proxies = S.proxies
       /\ rootDS = S.rootDS
       /\ obsOf = S.obsOf
       /\ dirty = S.dirty
       /\ watchers = S.watchers
       /\ calls = <<>>
       /\ dels = <<>>
       /\ handles = S.handles
       /\ gens = <<>>
       /\ nexts = <<>>
       /\ fuel = MaxFuel
       /\ prevDirty = S.dirty
       /\ last = NoOp
       /\ nops = 0

\* the nodes and values a push program writes: field a of a record
PushNodes == {1, 3, 5}

PushVals == {Prim(0), NaN}

\* handle.a = v
PushWrite(n, v) ==
  /\ nops < MaxPushOps
  /\ Commit(set(State, n, "a", v),
            Op("write", n, "a", v, Undef, ReflectGet(State, n, "a"), node[n].children["a"]))

\* watch(tracker, cb); a callback with a body is one closure, subscribed once
Subscribe(t, cb) ==
  /\ nops < MaxPushOps
  /\ Len(handles) < MaxHandles
  /\ cb \notin Callbacks => \A h \in DOMAIN handles : handles[h].cb # cb
  /\ Commit(watchPush(State, t, cb),
            Op("watch", t, cb, Undef, Undef, Undef, 0))

\* handle.unsubscribe(), on any handle the program holds, any number of times;
\* last keeps whether the handle had been unsubscribed and the registries before
Unsubscribe(h) ==
  /\ nops < MaxPushOps
  /\ Commit(unsubscribeHandle(State, h),
            Op("unsub", h, handles[h].cb, Undef, watchers, handles[h].unsub, 0))

\* delete handle.a
PushDelete(n) ==
  /\ nops < MaxPushOps
  /\ Commit(deleteProperty(State, n, "a"),
            Op("delete", n, "a", Undef, Undef, ReflectGet(State, n, "a"), node[n].children["a"]))

PushMarkClean(t) ==
  /\ nops < MaxPushOps
  /\ Commit(markClean(State, t),
            Op("markClean", t, "", Undef, Undef, Undef, 0))

PushNext ==
  \/ \E n \in PushNodes, v \in PushVals : PushWrite(n, v)
  \/ \E n \in PushNodes : PushDelete(n)
  \/ \E t \in Trackers, cb \in PushCallbacks : Subscribe(t, cb)
  \/ \E h \in DOMAIN handles : Unsubscribe(h)
  \/ \E t \in Trackers : PushMarkClean(t)

SpecPush == PushInit /\ [][PushNext]_vars

(***************************************************************************)
(* Pull delivery.  A third specification: the same two trackers, programs  *)
(* that create pull subscriptions, write, clean, call next() without       *)
(* waiting for the promise of an earlier next(), and cancel.               *)
(***************************************************************************)
\* number of operations of a pull program
MaxPullOps == 4
\* number of watch(target) calls of a program
MaxGens == 2
\* number of next() calls of a program
MaxNexts == 3

StPull(t, coalesce) == [o |-> t, coalesce |-> coalesce]

\* the pull subscriptions a program starts with
PullSetups ==
  { <<>>,
    <<StPull(1, TRUE)>>,
    <<StPull(1, FALSE)>>,
    <<StPull(2, TRUE), StPull(1, FALSE)>> }

RECURSIVE RunPulls(_, _, _)
RunPulls(S, steps, i) ==
  IF i > Len(steps) THEN S
  ELSE RunPulls(watchPull(S, steps[i].o, steps[i].coalesce), steps, i + 1)

PullInit ==
  \E su \in PullSetups :
    LET S == RunPulls(RunSetup(Empty("a"), StructPush, 1), su, 1)
    IN /\ heap = S.heap
       /\ node = S.node
       /\ proxies = S.proxies
       /\ rootDS = S.rootDS
       /\ obsOf = S.obsOf
       /\ dirty = S.dirty
       /\ watchers = S.watchers
       /\ calls = <<>>
       /\ dels = <<>>
       /\ handles = <<>>
       /\ gens = S.gens
       /\ nexts = <<>>
       /\ fuel = 0
       /\ prevDirty = S.dirty
       /\ last = NoOp
       /\ nops = 0

\* the writes of a pull program: field a of the shared node and of tracker 2's root
PullWrites == {[n |-> 3, v |-> Prim(0)], [n |-> 3, v |-> NaN], [n |-> 5, v |-> NaN]}

\* the ways to cancel a pull sequence
Cancels == {"unsubscribe", "return", "throw", "dispose"}

\* handle.a = v
PullWrite(w) ==
  /\ nops < MaxPullOps
  /\ Commit(set(State, w.n, "a", w.v),
            Op("write", w.n, "a", w.v, Undef, ReflectGet(State, w.n, "a"),
               node[w.n].children["a"]))

PullMarkClean(t) ==
  /\ nops < MaxPullOps
  /\ Commit(markClean(State, t),
            Op("markClean", t, "", Undef, Undef, Undef, 0))

\* watch(tracker, {coalesce}), on the first tracker
WatchPull(t, coalesce) ==
  /\ nops < MaxPullOps
  /\ t = 1
  /\ Len(gens) < MaxGens
  /\ Commit(watchPull(State, t, coalesce),
            Op("watchPull", t, "", Undef, Undef, Undef, 0))

\* watcher.next(), whether or not an earlier promise of the watcher is settled
CallNext(g) ==
  /\ nops < MaxPullOps
  /\ Len(nexts) < MaxNexts
  /\ Commit(next(State, g),
            Op("next", g, "", Undef, Undef, Undef, 0))

\* watcher.unsubscribe(), watcher.return(), watcher.throw(e), watcher[Symbol.dispose]():
\* each runs doUnsubscribe and nothing else that changes the library's state;
\* a program may always cancel a sequence it has not cancelled
Cancel(g, how) ==
  /\ nops < MaxPullOps \/ (how = "unsubscribe" /\ ~gens[g].stopped)
  /\ Commit(doUnsubscribe(State, g),
            Op("cancel", g, "", Undef, Undef, Undef, 0))

PullNext ==
  \/ \E w \in PullWrites : PullWrite(w)
  \/ \E t \in Trackers : PullMarkClean(t)
  \/ \E t \in Trackers, coalesce \in BOOLEAN : WatchPull(t, coalesce)
  \/ \E g \in DOMAIN gens : CallNext(g)
  \/ \E g \in DOMAIN gens, how \in Cancels : Cancel(g, how)

SpecPull == PullInit /\ [][PullNext]_vars

\* a consumer ends by cancelling its sequence (leaving for await, dispose at scope exit)
CancelLive(g) == g \in DOMAIN gens /\ ~gens[g].stopped /\ Cancel(g, "unsubscribe")

FairPull == PullInit /\ [][PullNext]_vars /\ \A g \in 1..MaxGens : WF_vars(CancelLive(g))

(***************************************************************************)
(* The API on other shapes.  A fourth specification: a model whose field a *)
(* holds an array (2, with the record 3 at index 1), an object that was    *)
(* sealed or frozen before the library saw it (4) and a plain object (5),  *)
(* both outside the model.  Programs read, write, delete, set the array's  *)
(* length, construct trackers, call watch() on any value they hold and ask *)
(* for the dirty data.  The sealed and frozen objects hold primitives only.*)
(***************************************************************************)
\* number of operations of such a program
MaxApiOps == 3

HeapItems(seal4) ==
  <<PlainObj([NoFields EXCEPT !["a"] = Raw(2), !["b"] = Prim(0)], <<"a", "b">>),
    [kind |-> "array",
     fields |-> [k \in ArrayKeys |->
                   IF k = "0" THEN Prim(0) ELSE IF k = "1" THEN Raw(3) ELSE Prim(2)],
     korder |-> <<"0", "1">>, slot |-> 0, seal |-> "none"],
    PlainObj([NoFields EXCEPT !["a"] = Prim(0)], <<"a">>),
    [PlainObj([NoFields EXCEPT !["a"] = Prim(0)], <<"a">>) EXCEPT !.seal = seal4],
    PlainObj([NoFields EXCEPT !["a"] = Prim(0)], <<"a">>)>>

ApiInit ==
  \E seal4 \in {"sealed", "frozen"} :
    LET S == RunSetup([Empty("a") EXCEPT !.heap = HeapItems(seal4)], <<StCreate(1)>>, 1)
    IN /\ heap = S.heap
       /\ node = S.node
       /\ proxies = S.proxies
       /\ rootDS = S.rootDS
       /\ obsOf = S.obsOf
       /\ dirty = S.dirty
       /\ watchers = S.watchers
       /\ calls = <<>>
       /\ dels = <<>>
       /\ handles = <<>>
       /\ gens = <<>>
       /\ nexts = <<>>
       /\ fuel = 0
       /\ prevDirty = S.dirty
       /\ last = NoOp
       /\ nops = 0

\* the assignments of a program: a new key, a replaced field, the outside objects
\* put into the model, the array's length, fields of the nested and outside objects
ApiWrites ==
  {[n |-> 1, k |-> "", v |-> Raw(5)], [n |-> 1, k |-> "", v |-> NaN],
   [n |-> 1, k |-> "b", v |-> Raw(5)], [n |-> 1, k |-> "b", v |-> Raw(4)],
   [n |-> 2, k |-> "length", v |-> Prim(1)], [n |-> 2, k |-> "length", v |-> Prim(0)],
   [n |-> 2, k |-> "0", v |-> Raw(5)],
   [n |-> 3, k |-> "a", v |-> NaN], [n |-> 4, k |-> "a", v |-> NaN],
   [n |-> 5, k |-> "a", v |-> NaN]}

ApiDeletes == {[n |-> 1, k |-> "b"], [n |-> 2, k |-> "1"]}

\* the values a program passes to watch(): the model, its data object, a nested
\* handle, an outside object and its handle
ApiTargets == {Hnd(1), Raw(1), Hnd(3), Raw(5), Hnd(5)}

\* handle[k]
ApiRead(n, k) ==
  /\ nops < MaxApiOps
  /\ n \in Wrapped
  /\ k \in DOMAIN heap[n].fields
  /\ LET r == get(State, n, k)
     IN Commit(r.S, Op("read", n, k, Undef, r.val, ReflectGet(State, n, k), node[n].children[k]))

\* handle[k] = v
ApiWrite(w) ==
  /\ nops < MaxApiOps
  /\ w.n \in Wrapped
  /\ Commit(set(State, w.n, w.k, w.v),
            Op("write", w.n, w.k, w.v, Undef, ReflectGet(State, w.n, w.k),
               node[w.n].children[w.k]))

\* delete handle[k]
ApiDelete(w) ==
  /\ nops < MaxApiOps
  /\ w.n \in Wrapped
  /\ Commit(deleteProperty(State, w.n, w.k),
            Op("delete", w.n, w.k, Undef, Undef, ReflectGet(State, w.n, w.k),
               node[w.n].children[w.k]))

\* createObservable(o) on an outside object
ApiCreate(o) ==
  /\ nops < MaxApiOps
  /\ Len(dirty) < MaxTrk
  /\ o \in {4, 5}
  /\ obsOf[o] = 0
  /\ Commit(createObservable(State, o),
            Op("create", o, "", Undef, IF Throws(State, o) THEN Thrown ELSE Hnd(o), Undef, 0))

\* watch(target, f)
ApiWatch(target) ==
  /\ nops < MaxApiOps
  /\ target.t = "hnd" => target.v \in Wrapped
  /\ LET r == watch(State, target, "f")
     IN Commit(r.S, Op("watch", target.v, "f", target,
                       IF r.threw THEN Thrown ELSE Undef, Undef, 0))

\* watch(target)
ApiWatchIterator(target) ==
  /\ nops < MaxApiOps
  /\ target.t = "hnd" => target.v \in Wrapped
  /\ LET r == watchIterator(State, target, TRUE)
     IN Commit(r.S, Op("watchPull", target.v, "", target,
                       IF r.threw THEN Thrown ELSE Undef, Undef, 0))

\* getModelInternals(model).getDirtyData()
ApiGetDirtyData(t) ==
  /\ nops < MaxApiOps
  /\ \E o \in Obj : obsOf[o] = t
  /\ LET r == getDirtyData(State, t)
     IN Commit(r.S, Op("getDirtyData", t, "", Undef, r.result, Undef, 0))

ApiNext ==
  \/ \E n \in Obj, k \in Keys \cup ArrayKeys : ApiRead(n, k)
  \/ \E w \in ApiWrites : ApiWrite(w)
  \/ \E w \in ApiDeletes : ApiDelete(w)
  \/ \E o \in Obj : ApiCreate(o)
  \/ \E target \in ApiTargets : ApiWatch(target)
  \/ \E target \in ApiTargets : ApiWatchIterator(target)
  \/ \E t \in Trackers : ApiGetDirtyData(t)

SpecApi == ApiInit /\ [][ApiNext]_vars

(***************************************************************************)
(* Cyclic object graphs.  A further specification: the programs of Spec    *)
(* run on inputs that reference themselves.  In the first 3 holds the root *)
(* 1 under a (a cycle 1 -> 2 -> 3 -> 1 below the two chains from 1 to 3),  *)
(* in the second 5 holds itself under b, in the third the cycle of the     *)
(* first carries two trackers, one rooted at 3 and one at 1.               *)
(***************************************************************************)
CycleSetups ==
  { [k23 |-> "a", steps |-> <<StBuild(3, "a", Raw(1)), StCreate(1), StWatch(1, "f")>>],
    [k23 |-> "a", steps |-> <<StBuild(5, "b", Raw(5)), StCreate(5), StWatch(1, "f")>>],
    [k23 |-> "a", steps |-> <<StBuild(3, "a", Raw(1)), StCreate(3), StCreate(1),
                              StWatch(1, "f"), StWatch(2, "g")>>] }

CycleInit ==
  \E su \in CycleSetups :
    LET S == RunSetup(Empty(su.k23), su.steps, 1)
    IN /\ heap = S.heap
       /\ node = S.node
       /\ proxies = S.proxies
       /\ rootDS = S.rootDS
       /\ obsOf = S.obsOf
       /\ dirty = S.dirty
       /\ watchers = S.watchers
       /\ calls = <<>>
       /\ dels = <<>>
       /\ handles = S.handles
       /\ gens = S.gens
       /\ nexts = S.nexts
       /\ fuel = S.fuel
       /\ prevDirty = S.dirty
       /\ last = NoOp
       /\ nops = 0

SpecCycle == CycleInit /\ [][Next]_vars

(***************************************************************************)
(* Containers as roots.  A further specification: the programs of Spec     *)
(* after createObservable(new Map()) on the Map 4, alone and followed by a *)
(* model over the whole structure, which reaches the Map through keys.     *)
(***************************************************************************)
ContainerRootSetups ==
  { [k23 |-> "a", steps |-> <<StCreate(4), StWatch(1, "f")>>],
    [k23 |-> "a", steps |-> <<StCreate(4), StCreate(1), StWatch(1, "f"), StWatch(2, "g")>>] }

ContainerRootInit ==
  \E su \in ContainerRootSetups :
    LET S == RunSetup(Empty(su.k23), su.steps, 1)
    IN /\ heap = S.heap
       /\ node = S.node
       /\ proxies = S.proxies
       /\ rootDS = S.rootDS
       /\ obsOf = S.obsOf
       /\ dirty = S.dirty
       /\ watchers = S.watchers
       /\ calls = <<>>
       /\ dels = <<>>
       /\ handles = S.handles
       /\ gens = S.gens
       /\ nexts = S.nexts
       /\ fuel = S.fuel
       /\ prevDirty = S.dirty
       /\ last = NoOp
       /\ nops = 0

SpecContainerRoot == ContainerRootInit /\ [][Next]_vars

(***************************************************************************)
(* Garbage collection.  A further specification: the program drops its     *)
(* references to some of the objects and the collector reclaims them, with *)
(* their proxies and nodes; the WeakRef of a parent edge that led to one   *)
(* of them no longer resolves.  A set of objects can be reclaimed when no  *)
(* object outside it holds one of them in a field and no node outside it   *)
(* holds one of their nodes in its children map (the program keeps the     *)
(* handles of the others, and the internals of every tracker).  Whether    *)
(* and when the collector runs is not determined.  The program goes on     *)
(* using the handles it kept.                                              *)
(***************************************************************************)
Gone == [kind |-> "gone", fields |-> NoFields, korder |-> <<>>, slot |-> 0, seal |-> "none"]

collect(S, G) ==
  [S EXCEPT !.heap = [o \in Obj |-> IF o \in G THEN Gone ELSE @[o]],
            !.node = [o \in Obj |-> IF o \in G THEN NoNode ELSE @[o]],
            !.rootDS = [o \in Obj |-> IF o \in G THEN 0 ELSE @[o]],
            !.obsOf = [o \in Obj |-> IF o \in G THEN 0 ELSE @[o]]]

\* object o, or its node, holds object n
Holds(o, n) ==
  \/ \E k \in DOMAIN heap[o].fields : IsObject(heap[o].fields[k]) /\ heap[o].fields[k].v = n
  \/ \E k \in DOMAIN node[o].children : node[o].children[k] = n

GcSetups ==
  { \* two trackers sharing 3 and the Map 4 below it
    [k23 |-> "a", steps |-> <<StCreate(1), StBuild(5, "b", Raw(3)), StCreate(5),
                              StWatch(1, "f"), StWatch(2, "g")>>],
    \* 2 holding 3 under the empty key
    [k23 |-> "", steps |-> <<StCreate(1), StWatch(1, "f")>>],
    \* an observable, then a model whose input reaches the same raw object
    [k23 |-> "a", steps |-> <<StCreate(3), StCreate(1), StWatch(1, "f"), StWatch(2, "f")>>] }

GcInit ==
  \E su \in GcSetups :
    LET S == RunSetup(Empty(su.k23), su.steps, 1)
    IN /\ heap = S.heap
       /\ node = S.node
       /\ proxies = S.proxies
       /\ rootDS = S.rootDS
       /\ obsOf = S.obsOf
       /\ dirty = S.dirty
       /\ watchers = S.watchers
       /\ calls = <<>>
       /\ dels = <<>>
       /\ handles = S.handles
       /\ gens = S.gens
       /\ nexts = S.nexts
       /\ fuel = S.fuel
       /\ prevDirty = S.dirty
       /\ last = NoOp
       /\ nops = 0

\* the collector reclaims the objects of G
Collect(G) ==
  /\ nops < MaxOps
  /\ G # {}
  /\ G \subseteq Wrapped
  /\ \A n \in G : \A o \in Obj \ G : ~Holds(o, n)
  /\ Commit(collect(State, G), Op("collect", 0, "", Undef, Undef, Undef, 0))

\* the values the program still has at hand
GcVals == {Prim(0), NaN}

GcNext ==
  \/ \E G \in SUBSET Obj : Collect(G)
  \/ \E n \in Obj, k \in Keys : Read(n, k)
  \/ \E n \in Obj, k \in Keys, v \in GcVals : Write(n, k, v)
  \/ \E n \in Obj, k \in Keys : Delete(n, k)
  \/ \E n \in Obj : CallMutator(n)
  \/ \E t \in Trackers : MarkClean(t)

SpecGc == GcInit /\ [][GcNext]_vars

(***************************************************************************)
(* Vocabulary of the properties.  A tracker reaches a node along a chain   *)
(* of keys: the keys of the handles a program reads, one after the other,  *)
(* from the tracker's root handle to the node's handle (the children maps).*)
(***************************************************************************)
TrackerRoot(t) == CHOOSE o \in Obj : obsOf[o] = t

RECURSIVE Down(_, _, _)
Down(cur, target, visited) ==
  IF cur = target THEN {<<>>}
  ELSE UNION { {<<k>> \o p : p \in Down(node[cur].children[k], target,
                                        visited \cup {node[cur].children[k]})} :
               k \in {x \in DOMAIN node[cur].children :
                        node[cur].children[x] # 0 /\ node[cur].children[x] \notin visited} }

Chains(t, n) == Down(TrackerRoot(t), n, {TrackerRoot(t)})

Reaching(n) == {t \in Trackers : Chains(t, n) # {}}

\* the non-empty paths of a chain and of its prefixes
Ancestors(p) == {Join(SubSeq(p, 1, i)) : i \in 1..Len(p)} \ {""}

\* what tracker t is to record for key k of node n, and for node n itself
KeyPaths(t, n, k) ==
  UNION { {Join(Append(p, k))} \cup Ancestors(p) : p \in Chains(t, n) }

OwnPaths(t, n) == UNION { Ancestors(p) : p \in Chains(t, n) }

SubKeyPaths(t, n) == {Join(Append(p, k)) : p \in Chains(t, n), k \in Keys}

\* the dirty set of t before the latest operation, and what the operation added
PrevOf(t) == IF t \in DOMAIN prevDirty THEN prevDirty[t] ELSE <<>>

Added(t) == Range(dirty[t]) \ Range(PrevOf(t))

\* the operations made through a handle
HandleOps == {"read", "write", "delete", "mutator", "reader", "inspect"}

\* the latest write assigned the handle the field already held
HoldsHandle == last.v.t = "hnd" /\ (last.old = last.v \/ last.child = last.v.v)

\* the latest operation wrote, to a field of a record, a value !== the old one
EffectiveWrite ==
  /\ last.op = "write"
  /\ ~hasInternalSlots(State, last.n)
  /\ ~StrictEq(last.old, last.v)
  /\ ~HoldsHandle

(***************************************************************************)
(* C1  Dirty-on-change.  After a write through a handle whose new value    *)
(* differs from the old one (!==), the change-set of each tracker reaching *)
(* the node contains the written key's full path and every non-empty       *)
(* strict ancestor path; if the tracker was clean and reaches the node     *)
(* along a single chain, the change-set is exactly that set.               *)
(***************************************************************************)
DirtyOnChange ==
  EffectiveWrite =>
    \A t \in Reaching(last.n) :
      /\ KeyPaths(t, last.n, last.k) \subseteq Range(dirty[t])
      /\ (PrevOf(t) = <<>> /\ Cardinality(Chains(t, last.n)) = 1)
           => Range(dirty[t]) = KeyPaths(t, last.n, last.k)

MultiRootFanOut ==
  (EffectiveWrite /\ Cardinality(Reaching(last.n)) >= 2) =>
    \A t \in Reaching(last.n) :
      /\ KeyPaths(t, last.n, last.k) \subseteq Range(dirty[t])
      /\ \A u \in Reaching(last.n) \ {t} :
           Added(t) \cap KeyPaths(u, last.n, last.k) \subseteq KeyPaths(t, last.n, last.k)

(***************************************************************************)
(* C4  markClean() on one tracker empties that tracker's change-set,       *)
(* invokes no subscriber, and leaves the change-set of every other tracker *)
(* as it was, whatever writes and cleans came before.                      *)
(***************************************************************************)
MarkCleanIsolated ==
  last.op = "markClean" =>
    /\ dirty[last.n] = <<>>
    /\ \A t \in Trackers \ {last.n} : dirty[t] = prevDirty[t]
    /\ calls = <<>>

\* a dirty tracker with a subscriber was cleaned while another tracker, sharing a
\* node with it, stays dirty
CleanedBesideDirtySharer ==
  /\ last.op = "markClean"
  /\ prevDirty[last.n] # <<>>
  /\ watchers[last.n] # <<>>
  /\ \E t \in Trackers \ {last.n} :
       /\ dirty[t] # <<>>
       /\ \E o \in Obj : {t, last.n} \subseteq Range(node[o].dirtySets)

(***************************************************************************)
(* C5  Diamond fan-in.  When a tracker reaches the written node along two  *)
(* or more distinct chains, an effective write through the node's handle   *)
(* records the written path and all its ancestors for every chain.         *)
(***************************************************************************)
DiamondFanIn ==
  EffectiveWrite =>
    \A t \in Trackers :
      Cardinality(Chains(t, last.n)) >= 2
        => KeyPaths(t, last.n, last.k) \subseteq Range(dirty[t])

MutatorMarksContainerPath ==
  last.op = "mutator" =>
    \A t \in Trackers :
      /\ OwnPaths(t, last.n) \subseteq Range(dirty[t])
      /\ Added(t) \subseteq OwnPaths(t, last.n)

(***************************************************************************)
(* C8  Reads never dirty.  A field read, an `in`/keys/descriptor/prototype *)
(* query, a non-mutating container method and the construction of a        *)
(* tracker leave every existing change-set as it was and invoke no         *)
(* subscriber; a freshly constructed tracker is clean.                     *)
(***************************************************************************)
ReadsNeverDirty ==
  last.op \in {"read", "inspect", "reader", "create"} =>
    /\ \A t \in DOMAIN prevDirty : dirty[t] = prevDirty[t]
    /\ calls = <<>>
    /\ last.op = "create" => dirty[Len(dirty)] = <<>>

\* a read wrapped an object for the first time under a tracker that is dirty and
\* has a subscriber
ReadWrappedWhileDirty ==
  /\ last.op = "read"
  /\ last.child = 0
  /\ last.ret.t = "hnd"
  /\ \E t \in Reaching(last.n) : dirty[t] # <<>> /\ watchers[t] # <<>>

(***************************************************************************)
(* C9  Container granularity.  No operation made through the handle of a   *)
(* container (an element write included) records a path that extends the   *)
(* container's own path with a sub-key.                                    *)
(***************************************************************************)
ContainerGranularity ==
  (last.op \in HandleOps /\ hasInternalSlots(State, last.n)) =>
    \A t \in Trackers : Added(t) \cap SubKeyPaths(t, last.n) = {}

(***************************************************************************)
(* C10  Delete.  Deleting a key through a handle records the key's full    *)
(* path and every ancestor path in every tracker reaching the node, and    *)
(* afterwards the key is absent from the underlying object and from the    *)
(* node's child cache.                                                     *)
(***************************************************************************)
DeleteRecordsAndRemoves ==
  last.op = "delete" =>
    /\ \A t \in Reaching(last.n) : KeyPaths(t, last.n, last.k) \subseteq Range(dirty[t])
    /\ heap[last.n].fields[last.k] = Absent
    /\ node[last.n].children[last.k] = 0

(***************************************************************************)
(* Vocabulary of the delivery properties.                                  *)
(***************************************************************************)
\* the deliveries on tracker t that the program's own operation started
TopDeliveries(t) == {d \in DOMAIN dels : dels[d].by = 0 /\ dels[d].ds = t}

\* the invocations of callback cb that delivery d made
Invocations(d, cb) == {c \in DOMAIN calls : calls[c].del = d /\ calls[c].cb = cb}

\* the callbacks that were registered on its tracker when delivery d began
RegisteredAt(d) == Range(dels[d].reg)

(***************************************************************************)
(* C11  Push delivery is synchronous and exactly-once.  When an effective  *)
(* write has returned, each tracker reaching the written node has had one  *)
(* delivery for the write, in which every callback that is registered on   *)
(* it was invoked exactly once and none more than once (however many paths *)
(* the write recorded in the change-set), and a tracker that does not      *)
(* reach the node has had none.                                            *)
(***************************************************************************)
ExactlyOncePerWrite ==
  EffectiveWrite =>
    \A t \in Trackers :
      IF t \in Reaching(last.n)
      THEN /\ Cardinality(TopDeliveries(t)) <= 1
           /\ \A d \in TopDeliveries(t) : \A cb \in RegisteredAt(d) :
                Cardinality(Invocations(d, cb)) <= 1
           /\ \A cb \in Range(watchers[t]) :
                \E d \in TopDeliveries(t) : Cardinality(Invocations(d, cb)) = 1
      ELSE TopDeliveries(t) = {}

\* a write to the shared node: two trackers notified, one of them along two chains
DiamondWriteDelivered ==
  /\ EffectiveWrite
  /\ last.n = 3
  /\ Cardinality(Chains(1, 3)) = 2
  /\ Cardinality(Added(1)) >= 4
  /\ TopDeliveries(1) # {} /\ TopDeliveries(2) # {}
  /\ Len(watchers[1]) >= 2

(***************************************************************************)
(* C12  Every invocation of a push callback receives exactly the paths the *)
(* change-set contains at the moment the callback is invoked, also when an *)
(* earlier callback of the same delivery has called markClean or written   *)
(* to the tracker.                                                         *)
(***************************************************************************)
SnapshotAtInvocation ==
  \A c \in DOMAIN calls : Range(calls[c].paths) = Range(calls[c].now)

(***************************************************************************)
(* C13  Unsubscribing during delivery does not change who is delivered to: *)
(* every callback that was registered on the tracker when a delivery began *)
(* is invoked exactly once by that delivery, also when a callback of the   *)
(* delivery unsubscribes itself or another callback.                       *)
(***************************************************************************)
DeliveredToAllRegistered ==
  \A d \in DOMAIN dels : \A cb \in RegisteredAt(d) :
    Cardinality(Invocations(d, cb)) = 1

ActiveSubscriptions(t) == {h \in DOMAIN handles : handles[h].ds = t /\ ~handles[h].unsub}

\* no callback was removed from a registry while a delivery of the operation ran
NoneUnsubscribedMeanwhile ==
  \A d \in DOMAIN dels : RegisteredAt(d) \subseteq Range(watchers[dels[d].ds])

(***************************************************************************)
(* C14  After unsubscribe() of a push subscription has returned, its       *)
(* callback is not invoked any more: every invocation is made for a        *)
(* subscription that has not been unsubscribed.  The other subscriptions   *)
(* keep being invoked: after an effective write during which no callback  *)
(* unsubscribed, the callback of every subscription that has not been      *)
(* unsubscribed, on a tracker reaching the written node, has been invoked  *)
(* once for the write.  And unsubscribe() on a handle that has been        *)
(* unsubscribed already changes no registry.                               *)
(***************************************************************************)
UnsubscribeIsFinalAndLocal ==
  /\ \A c \in DOMAIN calls : calls[c].live
  /\ (EffectiveWrite /\ NoneUnsubscribedMeanwhile) =>
       \A t \in Reaching(last.n) : \A h \in ActiveSubscriptions(t) :
         \E d \in TopDeliveries(t) : Cardinality(Invocations(d, handles[h].cb)) = 1
  /\ (last.op = "unsub" /\ last.old = TRUE) => watchers = last.ret

\* the invocations of the writing callback that wrote
WritingCalls == {c \in DOMAIN calls : calls[c].cb = "w" /\ calls[c].fuel > 0}

\* a callback of the operation called markClean on tracker t
CleanedByCallback(t) == \E c \in DOMAIN calls : calls[c].cb = "c" /\ calls[c].ds = t

\* the deliveries caused by invocation c
CausedBy(c, t) == {d \in DOMAIN dels : dels[d].by = c /\ dels[d].ds = t}

(***************************************************************************)
(* C15  Re-entrant mutation.  When the body of a callback writes, the      *)
(* nested write is complete before the outer delivery resumes: the value   *)
(* is stored, each tracker reaching the written node (and having           *)
(* callbacks) gets one delivery caused by that invocation, whose snapshot  *)
(* holds the written path (unless a callback cleaned the tracker during    *)
(* the operation), and all its invocations come after the writing          *)
(* invocation and before the next invocation of the outer delivery.  No    *)
(* delivery is lost: in every delivery, outer or nested, each callback     *)
(* that stays registered is invoked once.  The operation returns (its      *)
(* result state exists) once the callback has stopped writing.  When the   *)
(* outer operation is a delete of the very field the callback writes, the  *)
(* removal comes after the deliveries and the field ends absent.           *)
(***************************************************************************)
ReentrantWriteCompletes ==
  /\ \A c \in WritingCalls :
       /\ \A t \in Reaching(WriterNode) :
            watchers[t] # <<>> =>
              /\ Cardinality(CausedBy(c, t)) = 1
              /\ \A d \in CausedBy(c, t) :
                   \/ CleanedByCallback(t)
                   \/ KeyPaths(t, WriterNode, "a") \subseteq Range(dels[d].paths)
       /\ \A d \in DOMAIN dels : dels[d].by = c =>
            \A j \in DOMAIN calls : calls[j].del = d =>
              /\ j > c
              /\ \A k \in DOMAIN calls : (k > c /\ calls[k].del = calls[c].del) => j < k
       /\ \E c2 \in WritingCalls :
            /\ \A c3 \in WritingCalls : calls[c2].fuel <= calls[c3].fuel
            /\ ReflectGet(State, WriterNode, "a") =
                 IF last.op = "delete" /\ last.n = WriterNode
                 THEN Undef ELSE Prim(calls[c2].fuel)
  /\ \A d \in DOMAIN dels : \A cb \in RegisteredAt(d) \cap Range(watchers[dels[d].ds]) :
       Cardinality(Invocations(d, cb)) = 1
  /\ fuel >= 0

\* a callback wrote during a delivery that had a further callback to invoke
OuterDeliveryResumed ==
  \E c \in WritingCalls : \E k \in DOMAIN calls :
    /\ k > c
    /\ calls[k].del = calls[c].del
    /\ \E j \in DOMAIN calls : j > c /\ j < k /\ dels[calls[j].del].by = c

(***************************************************************************)
(* Vocabulary of the pull properties.                                      *)
(***************************************************************************)
\* the promises of subscription g that are still pending
Suspended(g) == {p \in DOMAIN nexts : nexts[p].gen = g /\ nexts[p].state = "pending"}

\* the invocations the latest operation made of the callback of subscription g
Notifications(g) == {c \in DOMAIN calls : calls[c].cb = PullNames[g]}

\* a step of a pull program: what it does to the pending batch of a subscription
\* nobody waits on, what next() returns, what becomes of the suspended promises,
\* and that no two promises yield the same notification
GetNextStep ==
  /\ \A g \in DOMAIN gens :
      (~gens[g].stopped /\ Suspended(g) = {} /\ Notifications(g)' # {}) =>
         \E c \in Notifications(g)' :
           /\ gens'[g].pendingPaths.set
           /\ gens'[g].pendingPaths.paths = calls'[c].paths
  /\ last'.op = "next" =>
      LET g == last'.n
          p == Len(nexts')
      IN \/ gens[g].stopped
         \/ /\ gens[g].pendingPaths.set
            /\ nexts'[p] = Promise(g, "value", gens[g].pendingPaths)
            /\ ~gens'[g].pendingPaths.set
         \/ /\ ~gens[g].pendingPaths.set
            /\ nexts'[p].state = "pending"
  /\ \A g \in DOMAIN gens : \A p \in Suspended(g) :
      IF Notifications(g)' # {}
      THEN \E c \in Notifications(g)' :
             nexts'[p].state = "value" /\ nexts'[p].paths = calls'[c].paths
      ELSE \/ nexts'[p] = nexts[p]
           \/ last'.op = "cancel" /\ last'.n = g
  /\ \A p, q \in DOMAIN nexts' :
      (nexts'[p].state = "value" /\ nexts'[q].state = "value"
         /\ nexts'[p].gen = nexts'[q].gen /\ nexts'[p].id = nexts'[q].id) => p = q

(***************************************************************************)
(* C16  Pull mode get-next.  A notification that reaches a subscription    *)
(* nobody is waiting on is retained as its pending batch.  next() on a     *)
(* subscription with a pending batch returns that batch at once and        *)
(* consumes it; next() with no pending batch returns a suspended promise.  *)
(* A suspended promise stays suspended until the next notification of its  *)
(* subscription (or its cancellation) and then resolves with that          *)
(* notification's paths.  No notification is yielded by two promises.      *)
(***************************************************************************)
PullGetNext == [][GetNextStep]_vars

\* a step of a pull program: the pending batch is the most recent notification's,
\* a notification nobody waits on replaces it, and what a promise comes to yield
\* is the most recent notification
LatestBatchStep ==
  \A g \in DOMAIN gens' :
    /\ gens'[g].pendingPaths.set => gens'[g].pendingPaths.id = gens'[g].seen
    /\ (/\ g \in DOMAIN gens
        /\ Notifications(g)' # {}
        /\ ~gens[g].stopped
        /\ gens[g].pendingResolve = 0) =>
            \E c \in Notifications(g)' :
              gens'[g].pendingPaths = Batch(calls'[c].paths, gens[g].seen + 1)
    /\ \A p \in DOMAIN nexts' :
         (/\ nexts'[p].gen = g
          /\ nexts'[p].state = "value"
          /\ (p \in DOMAIN nexts => nexts[p].state = "pending")) =>
            /\ nexts'[p].id = gens'[g].seen
            /\ (p \notin DOMAIN nexts => ~gens'[g].pendingPaths.set)

(***************************************************************************)
(* C17  Pull mode holds at most one pending batch.  When notifications     *)
(* arrive while no next() is waiting, each replaces the pending batch, so  *)
(* the pending batch is always the most recent notification's snapshot;    *)
(* the following next() yields it and leaves no pending batch (the next()  *)
(* after that suspends); a promise never yields a notification older than  *)
(* the most recent one, so a replaced batch is never yielded.              *)
(***************************************************************************)
SinglePendingBatch == [][LatestBatchStep]_vars

\* next() has yielded the second notification, the first one was never yielded
SecondBatchYieldedFirstDropped ==
  /\ last.op = "next"
  /\ \E p \in DOMAIN nexts :
       /\ p = Len(nexts)
       /\ nexts[p].gen = last.n
       /\ nexts[p].state = "value"
       /\ nexts[p].id = 2
       /\ ~gens[last.n].pendingPaths.set
       /\ \A q \in DOMAIN nexts : nexts[q].gen = last.n => nexts[q].id # 1

\* the state in which every pull subscription was created with the other coalesce option
Flip(S) ==
  [S EXCEPT !.gens = [g \in DOMAIN S.gens |-> [S.gens[g] EXCEPT !.coalesce = ~@]]]

(***************************************************************************)
(* C18  coalesce: false behaves as coalesce: true.  Whatever operation a   *)
(* program performs next (a write, markClean, next(), a cancellation,      *)
(* another watch()), performing it in the state whose subscriptions have   *)
(* the other coalesce option gives the same state, promises and their      *)
(* results included, up to that option.  Two programs that differ only in  *)
(* the option therefore see the same next() results at every step.         *)
(***************************************************************************)
CoalesceIrrelevant ==
  \A S \in {State} : \A F \in {Flip(S)} :
    /\ \A w \in PullWrites : \A R \in {set(S, w.n, "a", w.v)} :
         Flip(R) = set(F, w.n, "a", w.v)
    /\ \A t \in Trackers :
         /\ Flip(markClean(S, t)) = markClean(F, t)
         /\ \A coalesce \in BOOLEAN :
              Len(gens) < MaxGens =>
                Flip(watchPull(S, t, coalesce)) = watchPull(F, t, ~coalesce)
    /\ \A g \in DOMAIN gens :
         /\ Flip(next(S, g)) = next(F, g)
         /\ Flip(doUnsubscribe(S, g)) = doUnsubscribe(F, g)

\* a subscription made with coalesce: false holds its second undelivered batch
UncoalescedBatchReplaced ==
  \E g \in DOMAIN gens :
    /\ ~gens[g].coalesce
    /\ gens[g].pendingPaths.set
    /\ gens[g].pendingPaths.id >= 2
    /\ \A p \in DOMAIN nexts : nexts[p].gen # g

\* a step of a pull program: what a cancellation does, and what a cancelled
\* subscription does afterwards
CancelStep ==
  /\ last'.op = "cancel" =>
       LET g == last'.n
       IN /\ gens'[g].stopped
          /\ PullNames[g] \notin Range(watchers'[gens[g].ds])
          /\ gens[g].pendingResolve # 0 => nexts'[gens[g].pendingResolve].state = "done"
          /\ gens[g].stopped =>
               /\ gens' = gens
               /\ nexts' = nexts
               /\ watchers' = watchers
               /\ dirty' = dirty
  /\ \A g \in DOMAIN gens : gens[g].stopped =>
       /\ Notifications(g)' = {}
       /\ gens'[g] = gens[g]
       /\ (last'.op = "next" /\ last'.n = g) =>
            nexts'[Len(nexts')] = Promise(g, "done", NoBatch)
  /\ \A p \in DOMAIN nexts' :
       (/\ nexts'[p].state = "value"
        /\ (p \in DOMAIN nexts => nexts[p].state = "pending")) =>
          ~gens[nexts'[p].gen].stopped

(***************************************************************************)
(* C19  Cancelling a pull sequence (unsubscribe, return, throw, dispose)   *)
(* is synchronous and idempotent.  When the call returns, the sequence is  *)
(* stopped, its callback is out of the registry and the promise whose      *)
(* resolver it held is resolved as done; cancelling a cancelled sequence   *)
(* changes nothing.  A cancelled sequence receives no later notification,  *)
(* every next() on it returns done, and no promise comes to yield a batch  *)
(* after the cancellation, even if a batch was pending.                    *)
(***************************************************************************)
CancelIsFinal == [][CancelStep]_vars

\* next() on a sequence cancelled with a batch pending has returned done
DoneDespitePendingBatch ==
  /\ last.op = "next"
  /\ gens[last.n].stopped
  /\ gens[last.n].pendingPaths.set
  /\ nexts[Len(nexts)] = Promise(last.n, "done", NoBatch)

(***************************************************************************)
(* C20  No suspended get-next hangs.  In a program that cancels each of    *)
(* its sequences in the end, every promise next() returned suspended is    *)
(* resolved eventually (by a notification or by the cancellation),         *)
(* however many next() calls are outstanding at the same time.             *)
(***************************************************************************)
EveryNextResolves ==
  \A p \in 1..MaxNexts :
    (p \in DOMAIN nexts /\ nexts[p].state = "pending")
      ~> (p \in DOMAIN nexts /\ nexts[p].state # "pending")

(***************************************************************************)
(* Vocabulary of the API properties.                                       *)
(***************************************************************************)
\* the trackers whose internals a constructor has attached to a data object
Rooted == {t \in Trackers : \E o \in Obj : obsOf[o] = t}

\* a step of a program: what watch() does with a target that carries no internals
WatchUntrackedStep ==
  (last'.op \in {"watch", "watchPull"} /\ obsOf[last'.n] = 0) =>
    /\ last'.ret = Thrown
    /\ watchers' = watchers
    /\ handles' = handles
    /\ gens' = gens

(***************************************************************************)
(* C21  watch() on a target that carries neither observable nor model      *)
(* internals (a plain object, a nested handle that is no root) throws      *)
(* 'Target is not an observable or model', in push and in pull mode, and   *)
(* registers nothing: the registries, the push subscriptions and the pull  *)
(* subscriptions are as before the call.                                   *)
(***************************************************************************)
WatchRejectsUntracked == [][WatchUntrackedStep]_vars

\* watch() on the handle of a record nested in the model's array has thrown
WatchOnNestedHandleThrew ==
  /\ last.op \in {"watch", "watchPull"}
  /\ last.v = Hnd(3)
  /\ 3 \in Wrapped /\ obsOf[3] = 0
  /\ Len(node[3].dirtySets) > 0
  /\ last.ret = Thrown

\* a step of a program: what a constructor call that throws leaves behind
FailedCreateStep ==
  (last'.op = "create" /\ last'.ret = Thrown) =>
    /\ ~node[last'.n].wrapped => (~node'[last'.n].wrapped /\ proxies'[last'.n] = 0)
    /\ rootDS'[last'.n] = 0

(***************************************************************************)
(* C22  Creating an observable from a frozen or sealed object throws and   *)
(* leaves the object unwrapped: an object that had no node before the call *)
(* has no node and no handle after it, and no root change-set is           *)
(* registered for it, so that it is a never-seen value for a tracker it is *)
(* put into later.                                                         *)
(***************************************************************************)
FailedCreateLeavesNoTrace == [][FailedCreateStep]_vars

\* what a program reads at key k of object o: the handle of the object stored there,
\* the primitive stored there, undefined for a key the object does not have
Stored(o, k) ==
  IF heap[o].fields[k] = Absent THEN Undef
  ELSE IF IsObject(heap[o].fields[k]) THEN Hnd(heap[o].fields[k].v)
  ELSE heap[o].fields[k]

(***************************************************************************)
(* C23  Read transparency.  After any writes, deletes and assignments of   *)
(* an array's length made through handles, a read of key k through the     *)
(* handle of a record or an array returns the handle of the object stored  *)
(* at k in the underlying object, or the primitive stored there, and       *)
(* undefined for a key the object has no more, an index removed by a       *)
(* smaller length included.                                                *)
(***************************************************************************)
ReadTransparency ==
  (last.op = "read" /\ ~hasInternalSlots(State, last.n)) =>
    last.ret = Stored(last.n, last.k)

\* the objects that enter a tracker only when a write installs them
Installed == {4, 5}

(***************************************************************************)
(* C24  A structured value installed by a write (a replaced field, a new   *)
(* key, an array element) is tracked from its next read on: an effective   *)
(* write inside it records, in each tracker that reaches it along the keys *)
(* read, the inner path, the path of the installed key and all ancestors.  *)
(***************************************************************************)
InstalledValueTracked ==
  (EffectiveWrite /\ last.n \in Installed) =>
    \A t \in Rooted : KeyPaths(t, last.n, last.k) \subseteq Range(dirty[t])

\* the top-level keys of the dirty paths of tracker t, and where each occurs first
TopKeys(t) == {topKey(dirty[t][i]) : i \in DOMAIN dirty[t]}

FirstAt(t, k) ==
  CHOOSE i \in DOMAIN dirty[t] :
    /\ topKey(dirty[t][i]) = k
    /\ \A j \in DOMAIN dirty[t] : topKey(dirty[t][j]) = k => i <= j

(***************************************************************************)
(* C25  getDirtyData() returns one entry per distinct top-level key of the *)
(* dirty paths and no other entry (so every written top-level key has      *)
(* one, and a key with no dirty path has none), the entries are in the     *)
(* order in which a path under each key first entered the change-set, and  *)
(* each entry holds what the root handle gives at that key.                *)
(***************************************************************************)
DirtyDataByTopKey ==
  last.op = "getDirtyData" =>
    /\ {last.ret[i].key : i \in DOMAIN last.ret} = TopKeys(last.n)
    /\ \A i, j \in DOMAIN last.ret :
         i < j => /\ last.ret[i].key # last.ret[j].key
                  /\ FirstAt(last.n, last.ret[i].key) < FirstAt(last.n, last.ret[j].key)
    /\ \A i \in DOMAIN last.ret :
         last.ret[i].val = Stored(TrackerRoot(last.n), last.ret[i].key)

(***************************************************************************)
(* Vocabulary of the sharing properties: the chains of keys along which    *)
(* the underlying objects lead from a tracker's root to an object,         *)
(* whatever has been read.                                                 *)
(***************************************************************************)
RECURSIVE HeapDown(_, _, _)
HeapDown(cur, target, visited) ==
  IF cur = target THEN {<<>>}
  ELSE UNION { {<<k>> \o p : p \in HeapDown(heap[cur].fields[k].v, target,
                                            visited \cup {heap[cur].fields[k].v})} :
               k \in {x \in DOMAIN heap[cur].fields :
                        /\ IsObject(heap[cur].fields[x])
                        /\ heap[cur].fields[x].v \notin visited} }

HeapChains(t, n) == HeapDown(TrackerRoot(t), n, {TrackerRoot(t)})

\* the places (object, key) that hold object n
Holders(n) ==
  {pk \in Obj \X (Keys \cup ArrayKeys) :
     /\ pk[2] \in DOMAIN heap[pk[1]].fields
     /\ IsObject(heap[pk[1]].fields[pk[2]])
     /\ heap[pk[1]].fields[pk[2]].v = n}

(***************************************************************************)
(* C26  Sharing created after construction is tracked like sharing present *)
(* at construction.  When an object is held under two keys (of one tracker *)
(* or of two), an effective write through its handle records, in every     *)
(* tracker whose root leads to it, the written path and its ancestors      *)
(* along every chain of keys, read or not since it was assigned.  (Chains  *)
(* with an empty key, and trackers constructed on an object that was       *)
(* wrapped already, are left out.)                                         *)
(***************************************************************************)
SharingAfterConstruction ==
  (EffectiveWrite /\ Cardinality(Holders(last.n)) >= 2) =>
    \A t \in Trackers :
      rootDS[TrackerRoot(t)] = t =>
        \A p \in HeapChains(t, last.n) :
          "" \notin Range(p) =>
            ({Join(Append(p, last.k))} \cup Ancestors(p)) \subseteq Range(dirty[t])

(***************************************************************************)
(* C27  After a nested object has been replaced by a write, or its key     *)
(* deleted, the old object is disconnected from that position: an          *)
(* effective write through the old object's handle adds no path to, and    *)
(* starts no delivery on, a tracker whose root does not lead to the object *)
(* any more.                                                               *)
(***************************************************************************)
OldObjectDisconnected ==
  EffectiveWrite =>
    \A t \in Trackers :
      HeapChains(t, last.n) = {} => (Added(t) = {} /\ TopDeliveries(t) = {})

\* what invocation c read at field a of node n
SawAt(c, n) == calls[c].saw[CHOOSE i \in DOMAIN ReaderNodes : ReaderNodes[i] = n]

\* what a program reads where value v is stored
AsRead(v) == IF v.t = "raw" THEN Hnd(v.v) ELSE v

\* the invocations before c in which the writing callback wrote
WritesBefore(c) == {w \in WritingCalls : w < c}

\* what field a of node n, the node of the operation, holds when invocation
\* c runs, and what field a of WriterNode holds once a callback wrote: what
\* the latest write of a callback stored, else what the operation stored,
\* and for a delete what the field held before
HeldAt(c, n) ==
  IF n = WriterNode /\ WritesBefore(c) # {}
  THEN Prim(calls[CHOOSE w \in WritesBefore(c) : \A x \in WritesBefore(c) : x <= w].fuel)
  ELSE IF last.op = "write" THEN last.v
  ELSE AsRead(last.old)

(***************************************************************************)
(* C28  Order of the update and the delivery.  A callback that reads the   *)
(* written field during the delivery of a write sees the new value (and    *)
(* after a write made by a callback, the value that callback stored); a    *)
(* callback that reads the deleted field during the delivery of a delete   *)
(* still sees the value the field held, and the field is absent only when  *)
(* the delete has returned.                                                *)
(***************************************************************************)
UpdateOrderedWithDelivery ==
  last.op \in {"write", "delete"} =>
    /\ \A c \in DOMAIN calls : calls[c].cb = "r" =>
         /\ SawAt(c, last.n) = HeldAt(c, last.n)
         /\ WritesBefore(c) # {} => SawAt(c, WriterNode) = HeldAt(c, WriterNode)
    /\ last.op = "delete" => heap[last.n].fields[last.k] = Absent

\* a callback read the deleted field during the delivery and saw its value
DeletedFieldStillRead ==
  /\ last.op = "delete"
  /\ last.old # Undef
  /\ heap[last.n].fields[last.k] = Absent
  /\ \E c \in DOMAIN calls :
       calls[c].cb = "r" /\ SawAt(c, last.n) = AsRead(last.old)

\* the node whose field a was written or deleted by what caused delivery d: the
\* operation itself, or the invocation of the writing callback
WrittenFor(d) == IF dels[d].by = 0 THEN last.n ELSE WriterNode

\* a callback called markClean on tracker t after delivery d was caused and
\* before invocation c
CleanedUntil(t, d, c) ==
  \E x \in DOMAIN calls :
    calls[x].cb = "c" /\ calls[x].ds = t /\ dels[d].by < x /\ x < c

(***************************************************************************)
(* C29  Marking precedes every delivery.  Within one write or delete, each *)
(* invocation of a callback (of whatever tracker) is made when the         *)
(* change-sets of all trackers reaching the written node already hold the  *)
(* paths of that write: the written key's path and its ancestors along     *)
(* every chain, unless a callback cleaned that tracker in between.  The    *)
(* same holds for the deliveries of a write made by a callback.            *)
(***************************************************************************)
AllMarkedBeforeAnyDelivery ==
  last.op \in {"write", "delete"} =>
    \A c \in DOMAIN calls : \A u \in Reaching(WrittenFor(calls[c].del)) :
      \/ CleanedUntil(u, calls[c].del, c)
      \/ KeyPaths(u, WrittenFor(calls[c].del), "a") \subseteq Range(calls[c].all[u])

\* the first callback invoked for a write to the node shared by trackers 1
\* and 2 is one of tracker 1 and finds the new paths of tracker 2
OtherTrackerAlreadyMarked ==
  /\ last.op = "write"
  /\ last.n = 3
  /\ calls # <<>>
  /\ calls[1].ds = 1
  /\ KeyPaths(2, 3, "a") # {}
  /\ KeyPaths(2, 3, "a") \cap Range(PrevOf(2)) = {}
  /\ KeyPaths(2, 3, "a") \subseteq Range(calls[1].all[2])

\* before the latest operation the change-set of t held every path the operation
\* is to record for it
AlreadyRecorded(t) == KeyPaths(t, last.n, last.k) \subseteq Range(PrevOf(t))

(***************************************************************************)
(* C30  An effective write always notifies.  When a write stores a value   *)
(* that differs from the old one and the change-set of a tracker reaching  *)
(* the node already held every path of the write, the tracker still gets   *)
(* its delivery: each callback registered on it is invoked once, the first *)
(* registered callback of the delivery among them, and the paths delivered *)
(* contain the paths of the write (unless a callback cleaned the tracker   *)
(* during the operation).                                                  *)
(***************************************************************************)
RepeatedWriteStillNotifies ==
  EffectiveWrite =>
    \A t \in Reaching(last.n) : AlreadyRecorded(t) =>
      /\ \A cb \in Range(watchers[t]) :
           \E d \in TopDeliveries(t) : Cardinality(Invocations(d, cb)) = 1
      /\ \A d \in TopDeliveries(t) :
           /\ Cardinality(Invocations(d, dels[d].reg[1])) = 1
           /\ \/ CleanedByCallback(t)
              \/ KeyPaths(t, last.n, last.k) \subseteq Range(dels[d].paths)

\* a second write to the shared node, which adds no path to any change-set,
\* is delivered to the callbacks of both trackers
NothingNewStillDelivered ==
  /\ EffectiveWrite
  /\ last.n = 3
  /\ dirty = prevDirty
  /\ \A t \in {1, 2} :
       /\ t \in Reaching(3)
       /\ AlreadyRecorded(t)
       /\ \E c \in DOMAIN calls : calls[c].ds = t /\ dels[calls[c].del].by = 0

\* the positions of the separators of path string p
Dots(p) == {i \in 1..Len(p) : SubSeq(p, i, i) = "."}

\* the paths of the strict ancestors of path string p: what precedes a separator
AncestorsOf(p) == {SubSeq(p, 1, i - 1) : i \in Dots(p)}

(***************************************************************************)
(* C31  Ancestor closure.  In every reachable state, and in every state a  *)
(* callback is invoked in, each change-set that holds the path of a key    *)
(* sequence k1..kn holds the paths of k1, k1.k2, ..., k1..k(n-1) as well.  *)
(***************************************************************************)
AncestorClosed ==
  /\ \A t \in Trackers : \A p \in Range(dirty[t]) :
       AncestorsOf(p) \subseteq Range(dirty[t])
  /\ \A c \in DOMAIN calls : \A t \in DOMAIN calls[c].all : \A p \in Range(calls[c].all[t]) :
       AncestorsOf(p) \subseteq Range(calls[c].all[t])

\* a container mutation added a path of three keys or more to a change-set
DeepContainerPathAdded ==
  /\ last.op = "mutator"
  /\ \E t \in Trackers : \E p \in Added(t) : Cardinality(Dots(p)) >= 2

\* sequence s begins with sequence p
StartsWith(s, p) == Len(p) <= Len(s) /\ SubSeq(s, 1, Len(p)) = p

(***************************************************************************)
(* C32  Only markClean removes paths.  Every operation other than          *)
(* markClean (read, write, delete, container method, non-mutating method,  *)
(* inspection, watch, unsubscribe with the deliveries they cause,          *)
(* createObservable over objects other trackers hold) leaves each          *)
(* change-set with the paths it had, in their order, followed by the paths *)
(* it added; markClean leaves the other change-sets as they were; and no   *)
(* change-set ever holds a path twice.                                     *)
(***************************************************************************)
OnlyMarkCleanRemoves ==
  /\ \A t \in DOMAIN prevDirty :
       (last.op # "markClean" \/ last.n # t) => StartsWith(dirty[t], prevDirty[t])
  /\ \A t \in Trackers : Cardinality(Range(dirty[t])) = Len(dirty[t])

\* an effective write recorded only paths its change-set already held
PathsReAdded ==
  /\ EffectiveWrite
  /\ dirty = prevDirty
  /\ \E t \in Reaching(last.n) : KeyPaths(t, last.n, last.k) \subseteq Range(dirty[t])

\* the change-sets node n owns (meta.dirtySets)
ownedChangeSets(n) == Range(node[n].dirtySets)

\* the nodes registered in the children map of node n
ChildrenOf(n) == {node[n].children[k] : k \in DOMAIN node[n].children} \ {0}

(***************************************************************************)
(* C33  Owned change-sets are downward-closed.  In every reachable state   *)
(* each node registered in the children map of a node owns every           *)
(* change-set that node owns, also when the child was wrapped or attached  *)
(* after its parent came to be shared between trackers.                    *)
(***************************************************************************)
OwnedSetsDownwardClosed ==
  \A n \in Wrapped : \A c \in ChildrenOf(n) :
    ownedChangeSets(n) \subseteq ownedChangeSets(c)

\* the upward branches from node cur that repeat no node: the pairs of a
\* change-set and a key sequence, one for each root a branch passes
RECURSIVE UpPairs(_, _, _)
UpPairs(cur, suffix, stack) ==
  (IF rootDS[cur] # 0 THEN {[ds |-> rootDS[cur], p |-> Join(suffix)]} ELSE {})
  \cup UNION { UpPairs(e.node, <<e.key>> \o suffix, stack \cup {e.node}) :
                 e \in {x \in Range(node[cur].parents) : x.node \notin stack} }

\* what the upward walk from node n collects
Collected(n) == traverse(State, n, <<>>, {n}, <<>>)

(***************************************************************************)
(* C34  Propagation on cyclic graphs.  On every handle graph, with         *)
(* self-references and longer cycles, the upward walk from any node ends   *)
(* and collects each pair of a change-set and a path once: exactly one     *)
(* pair for every root on every upward branch that repeats no node, so a   *)
(* node reached along two branches is passed on both.  An effective write  *)
(* to a field of a root adds to that root's change-set the field's own     *)
(* path and nothing else, also when the root references itself.            *)
(***************************************************************************)
WalkCutsCycles ==
  /\ \A n \in Wrapped : \A r \in {Collected(n)} :
       /\ \A i, j \in DOMAIN r :
            (r[i].ds = r[j].ds /\ Join(r[i].path) = Join(r[j].path)) => i = j
       /\ {[ds |-> r[i].ds, p |-> Join(r[i].path)] : i \in DOMAIN r} = UpPairs(n, <<>>, {n})
  /\ EffectiveWrite =>
       \A t \in Trackers : rootDS[last.n] = t =>
         Range(dirty[t]) = Range(PrevOf(t)) \cup {last.k}

\* an effective write to a field of a root that holds itself
SelfReferenceWritten ==
  /\ EffectiveWrite
  /\ rootDS[last.n] # 0
  /\ \E e \in Range(node[last.n].parents) : e.node = last.n
  /\ Added(rootDS[last.n]) = {last.k}

\* node n is an orphan: not a root, and no upward branch reaches a root
Orphan(n) == rootDS[n] = 0 /\ UpPairs(n, <<>>, {n}) = {}

\* the parent edges of node n that no longer resolve
Dangling(n) == {e \in Range(node[n].parents) : heap[e.node].kind = "gone"}

(***************************************************************************)
(* C35  Orphan fallback.  When an effective write is made to key k of a    *)
(* node that is not a root and from which the upward walk reaches no root  *)
(* (it has no parent edges, or none that leads to a root, or all of them   *)
(* dangle), each change-set the node owns gets k, without prefix, and      *)
(* nothing else, and is delivered once to each of its callbacks; the       *)
(* other change-sets are unchanged and not delivered.                      *)
(***************************************************************************)
OrphanFallback ==
  (EffectiveWrite /\ Orphan(last.n)) =>
    \A t \in Trackers :
      IF t \in ownedChangeSets(last.n)
      THEN /\ Range(dirty[t]) = Range(PrevOf(t)) \cup {last.k}
           /\ Cardinality(TopDeliveries(t)) = IF watchers[t] = <<>> THEN 0 ELSE 1
           /\ \A cb \in Range(watchers[t]) :
                \E d \in TopDeliveries(t) : Cardinality(Invocations(d, cb)) = 1
      ELSE dirty[t] = PrevOf(t) /\ TopDeliveries(t) = {}

\* a write to a node all of whose parent edges dangle, owned by two trackers
OrphanOfTwoTrackersWritten ==
  /\ EffectiveWrite
  /\ Orphan(last.n)
  /\ node[last.n].parents # <<>>
  /\ Dangling(last.n) = Range(node[last.n].parents)
  /\ Cardinality(ownedChangeSets(last.n)) = 2
  /\ \A t \in ownedChangeSets(last.n) : last.k \in Added(t) /\ TopDeliveries(t) # {}

\* the path string of key k below the path string p of a node (p is empty for a root)
PathBelow(p, k) == IF p = "" THEN k ELSE p \o "." \o k

\* what a write to key k of node n is to record in the change-set of t: for
\* every upward branch from n that resolves and passes the root of t, the
\* key's path from there and its ancestors
LivePaths(t, n, k) ==
  UNION { {PathBelow(x.p, k)} \cup AncestorsOf(PathBelow(x.p, k)) :
            x \in {y \in UpPairs(n, <<>>, {n}) : y.ds = t} }

(***************************************************************************)
(* C36  Dangling back-references.  A parent edge whose parent has been     *)
(* reclaimed is passed over: an effective write to a node that still       *)
(* reaches a root completes, and each change-set gains exactly the paths   *)
(* of the key, with all their ancestors, along the upward branches that    *)
(* still resolve, wherever on the branches the dangling edges are.         *)
(***************************************************************************)
DanglingEdgeSkipped ==
  (EffectiveWrite /\ ~Orphan(last.n)) =>
    \A t \in Trackers :
      Range(dirty[t]) = Range(PrevOf(t)) \cup LivePaths(t, last.n, last.k)

\* a write to a node whose first parent edge dangles and whose second is
\* live: the root above the live edge recorded the whole path
LiveEdgeBehindDanglingOne ==
  /\ EffectiveWrite
  /\ Len(node[last.n].parents) >= 2
  /\ node[last.n].parents[1] \in Dangling(last.n)
  /\ node[last.n].parents[2] \notin Dangling(last.n)
  /\ \E t \in Trackers :
       /\ PathBelow(node[last.n].parents[2].key, last.k) \in Added(t)
       /\ node[last.n].parents[2].key \in Added(t)

\* the paths of one key or more at which the upward walk from container n
\* passes the root of tracker t
KeyedPaths(t, n) ==
  {Join(x.path) : x \in {y \in Range(Collected(n)) : y.ds = t /\ Len(y.path) > 0}}

(***************************************************************************)
(* C37  Mutating a root container.  A mutating method called on a          *)
(* container adds to a change-set only the container's paths of one key or *)
(* more from the root of that tracker, with their ancestors, and notifies  *)
(* a tracker only if it has such a path: a tracker whose root is the       *)
(* container itself gets nothing for it and none of its subscribers is     *)
(* invoked.                                                                *)
(***************************************************************************)
RootContainerSilent ==
  last.op = "mutator" =>
    \A t \in Trackers :
      /\ Range(dirty[t]) = Range(PrevOf(t)) \cup
           UNION { {p} \cup AncestorsOf(p) : p \in KeyedPaths(t, last.n) }
      /\ KeyedPaths(t, last.n) = {} => TopDeliveries(t) = {}
      /\ (KeyedPaths(t, last.n) # {} /\ watchers[t] # <<>>) =>
           Cardinality(TopDeliveries(t)) = 1

\* a mutating method on a Map that is the root of a watched tracker and
\* lies below the root of another: only the other records and is notified
RootContainerMutated ==
  /\ last.op = "mutator"
  /\ rootDS[last.n] # 0
  /\ watchers[rootDS[last.n]] # <<>>
  /\ Added(rootDS[last.n]) = {}
  /\ TopDeliveries(rootDS[last.n]) = {}
  /\ \E u \in Trackers : Added(u) # {} /\ TopDeliveries(u) # {}

(***************************************************************************)
(* C38  Rejected writes.  A write through a handle that the underlying     *)
(* object rejects (it is frozen, or sealed and lacks the key) leaves every *)
(* change-set as it was, invokes no callback and leaves the child cache of *)
(* the node as it was.                                                     *)
(***************************************************************************)
RejectedWriteIsSilent ==
  (last.op = "write" /\ Rejects(State, last.n, last.k)) =>
    /\ dirty = prevDirty
    /\ calls = <<>>
    /\ dels = <<>>
    /\ node[last.n].children[last.k] = last.child


\* the subscriptions of function cb to tracker t that have not been unsubscribed
SubscriptionsOf(t, cb) == {h \in ActiveSubscriptions(t) : handles[h].cb = cb}

\* the invocations of cb made by the deliveries of the operation to tracker t
InvokedFor(t, cb) == UNION {Invocations(d, cb) : d \in TopDeliveries(t)}

(***************************************************************************)
(* C39  Each watch() call is a subscription of its own.  After an          *)
(* effective write during which no callback unsubscribed, a function has   *)
(* been invoked, for each tracker reaching the written node, as many times *)
(* as it has subscriptions to that tracker that were not unsubscribed: a   *)
(* function subscribed twice is invoked twice.  And after unsubscribe() of *)
(* one handle the function of every subscription that has not been         *)
(* unsubscribed is still in the registry of its tracker.                   *)
(***************************************************************************)
SubscriptionsAreIndependent ==
  /\ (EffectiveWrite /\ NoneUnsubscribedMeanwhile) =>
       \A t \in Reaching(last.n) : \A cb \in Callbacks :
         Cardinality(InvokedFor(t, cb)) = Cardinality(SubscriptionsOf(t, cb))
  /\ last.op = "unsub" =>
       \A h \in DOMAIN handles :
         ~handles[h].unsub => handles[h].cb \in Range(watchers[handles[h].ds])


\* node c has the parent edge (n, k)
HasParentEdge(c, n, k) ==
  \E i \in DOMAIN node[c].parents : node[c].parents[i] = [node |-> n, key |-> k]

\* the chains of keys from the root of tracker t to node n that pass the empty key
EmptyKeyChains(t, n) == {p \in Chains(t, n) : "" \in Range(p)}

(***************************************************************************)
(* C40  The empty string is a key like any other.  A node that a wrapped   *)
(* node holds under the empty key has the parent edge (holder, "").  After *)
(* an effective write to a node that a tracker reaches along a chain with  *)
(* an empty segment, the change-set of the tracker contains the full path  *)
(* along that chain (the empty segment included) and every non-empty       *)
(* ancestor, and the bare written key has been added only if it is itself  *)
(* one of the paths the tracker is to record.                              *)
(***************************************************************************)
EmptyKeyHasParentEdge ==
  /\ \A n \in Wrapped :
       ("" \in DOMAIN node[n].children /\ node[n].children[""] # 0)
         => HasParentEdge(node[n].children[""], n, "")
  /\ EffectiveWrite =>
       \A t \in Reaching(last.n) :
         /\ \A p \in EmptyKeyChains(t, last.n) :
              ({Join(Append(p, last.k))} \cup Ancestors(p)) \subseteq Range(dirty[t])
         /\ (EmptyKeyChains(t, last.n) # {} /\ last.k \in Added(t))
              => last.k \in KeyPaths(t, last.n, last.k)

====
